---------------------------- MODULE Spec2Model ----------------------------
(***************************************************************************)
(* A model of the job-application tracker (src/skills/job_tracker).        *)
(*                                                                         *)
(* Texts are TLA+ strings and every text test of the program is computed   *)
(* on the characters, the way the Python code computes it (substring       *)
(* search, prefix tests, regular expressions unfolded by hand).            *)
(***************************************************************************)
EXTENDS Integers, Sequences, FiniteSets, TLC

(***************************************************************************)
(* Bounds of the model.                                                    *)
(***************************************************************************)
\* instants per calendar day in the model's clock
TicksPerDay == 2
\* the longest list of classified rows handed to the table and summary builders
MaxRows == 3
\* the most messages a run of the rule path fetches
MaxMsgs == 3
\* the most messages a run with ai_classify fetches
MaxLlmMsgs == 2
\* the largest count in a summary handed to render_ai_sankey
MaxCount == 2

VARIABLES
    phase,                  \* where the modelled call stands
    ai_classify,            \* run(): the parameter ai_classify
    options,                \* run(): the flag parameters that are set, by name
    normalized_all,         \* run(): the fetched messages
    normalized,             \* run(): the messages the first scan kept
    first_scan_rows,        \* run(): the rows of the first-scan report
    events,                 \* run(): the events emitted so far
    app_has_interview,      \* run(): the keys app_has_interview maps to True
    report_rows,            \* run(): the DecisionRow list
    summary_message_rows,   \* run(): one SummaryMessageRow per classified message
    audit_rows,             \* run(): the audit table of compute_funnel
    app_summary_rows,       \* run(): the application table
    result,                 \* run(): metrics, rates and warnings of the SkillRunResult
    artifacts,              \* the files written so far
    raised,                 \* the exception that ended the call, "" when none did
    ai_msg_rows,            \* the classified message rows (ai_msg_rows of run)
    grouped,                \* the local dict grouped of the builders: application id -> rows
    ai_app_rows,            \* the result of build_application_rows
    ai_summary,             \* the result of build_ai_result_summary
    scans,                  \* the /api/scan requests in flight: request -> its locals
    sessions,               \* the session store: session id -> saved payload
    runtime_fs,             \* the runtime directory of each session, as a tree
    oauth,                  \* the Google OAuth exchange: the locals of start and callback
    ai_sankey               \* render_ai_sankey: the values, nodes and flows it draws

aiVars == <<ai_msg_rows, grouped, ai_app_rows, ai_summary>>
ruleVars == <<normalized, first_scan_rows, events, app_has_interview, report_rows,
              summary_message_rows, audit_rows, app_summary_rows, result>>
\* the state outside run(): the API server and the renderer of the AI diagram
outerVars == <<scans, sessions, runtime_fs, oauth, ai_sankey>>
runVars == <<ai_classify, options, normalized_all, ruleVars, artifacts, raised, outerVars>>
vars == <<phase, ai_classify, options, normalized_all, normalized, first_scan_rows, events, app_has_interview, report_rows, summary_message_rows, audit_rows, app_summary_rows, result, artifacts, raised, ai_msg_rows, grouped, ai_app_rows, ai_summary, scans, sessions, runtime_fs, oauth, ai_sankey>>

(***************************************************************************)
(* Strings: the Python str operations the program uses.                    *)
(***************************************************************************)
LowerAlpha == "abcdefghijklmnopqrstuvwxyz"
UpperAlpha == "ABCDEFGHIJKLMNOPQRSTUVWXYZ"
DigitChars == "0123456789"

CharAt(t, i) == SubSeq(t, i, i)
CharsOf(t) == {CharAt(t, i) : i \in 1..Len(t)}

LowerSet == CharsOf(LowerAlpha)
UpperSet == CharsOf(UpperAlpha)
DigitSet == CharsOf(DigitChars)
AlnumLowerSet == LowerSet \cup DigitSet
\* \s of the re module, for the characters a mail header or preview holds
SpaceSet == {" ", "\t", "\n", "\r"}
\* \w of the re module (ASCII)
WordSet == LowerSet \cup UpperSet \cup DigitSet \cup {"_"}

LowerOfUpper ==
    [c \in UpperSet |-> CharAt(LowerAlpha, CHOOSE k \in 1..26 : CharAt(UpperAlpha, k) = c)]
LowerChar(c) == IF c \in UpperSet THEN LowerOfUpper[c] ELSE c

\* the smallest and the largest element of a non-empty set of integers
MinOf(S) == CHOOSE x \in S : \A y \in S : x <= y
MaxOf(S) == CHOOSE x \in S : \A y \in S : y <= x
\* the element of a set of one element: The({e : x \in {d}}) is e with x standing
\* for the value of d
The(S) == CHOOSE x \in S : TRUE
\* the elements of a sequence
Range(s) == {s[i] : i \in 1..Len(s)}

\* "".join(f[lo..hi]) (halving keeps the evaluation shallow on long texts)
RECURSIVE ConcatRange(_, _, _)
ConcatRange(f, lo, hi) ==
    IF lo > hi THEN ""
    ELSE IF lo = hi THEN f[lo]
    ELSE ConcatRange(f, lo, (lo + hi) \div 2) \o ConcatRange(f, (lo + hi) \div 2 + 1, hi)
\* str.lower()
Lower(t) == ConcatRange([i \in 1..Len(t) |-> LowerChar(CharAt(t, i))], 1, Len(t))

\* s at position i of t
MatchAt(t, i, s) == i >= 1 /\ i + Len(s) - 1 <= Len(t) /\ SubSeq(t, i, i + Len(s) - 1) = s
\* s in t
Contains(t, s) == \E i \in 1..(Len(t) - Len(s) + 1) : SubSeq(t, i, i + Len(s) - 1) = s
\* t.startswith(p), t.endswith(p)
StartsWith(t, p) == MatchAt(t, 1, p)
EndsWith(t, p) == MatchAt(t, Len(t) - Len(p) + 1, p)
\* t.find(s) + 1: the first position of s in t, 0 when absent
IndexOf(t, s) ==
    The({IF hits = {} THEN 0 ELSE MinOf(hits) :
            hits \in {{i \in 1..(Len(t) - Len(s) + 1) : MatchAt(t, i, s)}}})
\* t[i:] and t[:i] with 1-based positions
From(t, i) == SubSeq(t, i, Len(t))
Upto(t, i) == SubSeq(t, 1, i)

\* the end of the longest run of characters of set S that starts at i (i - 1 when empty)
RunEnd(t, i, S) == MinOf({j \in i..Len(t) : CharAt(t, j) \notin S} \cup {Len(t) + 1}) - 1
\* the end of the longest run of characters outside S that starts at i
RunEndNot(t, i, S) == MinOf({j \in i..Len(t) : CharAt(t, j) \in S} \cup {Len(t) + 1}) - 1

\* str.strip()
Strip(t) ==
    The({IF solid = {} THEN "" ELSE SubSeq(t, MinOf(solid), MaxOf(solid)) :
            solid \in {{i \in 1..Len(t) : CharAt(t, i) \notin SpaceSet}}})

\* t[:n]
Truncate(t, n) == IF Len(t) > n THEN SubSeq(t, 1, n) ELSE t

\* re.sub(r"[^a-z0-9]+", " ", value.lower()), whitespace collapsed, stripped:
\* the runs of letters and digits of the lowercased text, one space between them
AlnumOrSpace(c) == IF c \in AlnumLowerSet THEN c ELSE " "
_normalize_text(value) ==
    The({The({IF solid = {} THEN ""
              ELSE ConcatRange(
                       [i \in 1..Len(m) |->
                           IF m[i] # " " \/ (i > 1 /\ m[i - 1] # " " /\ i < MaxOf(solid))
                           THEN m[i] ELSE ""],
                       1, Len(m)) :
                 solid \in {{i \in 1..Len(m) : m[i] # " "}}}) :
            m \in {[i \in 1..Len(value) |-> AlnumOrSpace(LowerChar(CharAt(value, i)))]}})

\* the k-th smallest element of a set of integers
KthOf(S, k) == CHOOSE x \in S : Cardinality({y \in S : y < x}) = k - 1
\* text.split(): the words of a text, in order
WordAt(t, i) == SubSeq(t, i, RunEndNot(t, i, SpaceSet))
SplitWords(t) ==
    The({[k \in 1..Cardinality(starts) |-> WordAt(t, KthOf(starts, k))] :
            starts \in {{i \in 1..Len(t) :
                            /\ CharAt(t, i) \notin SpaceSet
                            /\ (i = 1 \/ CharAt(t, i - 1) \in SpaceSet)}}})
_tokenize(text) == Range(SplitWords(_normalize_text(text)))

\* " ".join(w)
JoinWords(w) ==
    ConcatRange([i \in 1..(2 * Len(w) - 1) |-> IF i % 2 = 1 THEN w[(i + 1) \div 2] ELSE " "],
                1, 2 * Len(w) - 1)

\* re.search(rf"\b{stripped}\b", text) for a word of lowercase letters and digits
ContainsWord(t, s) ==
    \E i \in 1..(Len(t) - Len(s) + 1) :
        /\ MatchAt(t, i, s)
        /\ (i = 1 \/ CharAt(t, i - 1) \notin WordSet)
        /\ (i + Len(s) > Len(t) \/ CharAt(t, i + Len(s)) \notin WordSet)

\* t.split(ch): the parts of t between the occurrences of the character ch
SplitOn(t, ch) ==
    The({[k \in 1..(Cardinality(cuts) - 1) |->
             SubSeq(t, KthOf(cuts, k) + 1, KthOf(cuts, k + 1) - 1)] :
            cuts \in {{i \in 1..Len(t) : CharAt(t, i) = ch} \cup {0, Len(t) + 1}}})

\* the elements of a sequence, each once, in the order of their first occurrence
\* (the key order of a dict or Counter filled from it)
RECURSIVE SeqDistinct(_)
SeqDistinct(s) ==
    IF Len(s) = 0 THEN <<>>
    ELSE The({IF \E i \in 1..Len(r) : r[i] = s[Len(s)] THEN r ELSE Append(r, s[Len(s)]) :
                 r \in {SeqDistinct(SubSeq(s, 1, Len(s) - 1))}})
CountIn(s, x) == Cardinality({i \in 1..Len(s) : s[i] = x})
\* Counter(s).most_common(1)[0][0] of a non-empty sequence: the most frequent
\* element, the first one met among equally frequent ones
MostCommon(s) ==
    s[CHOOSE i \in 1..Len(s) :
         /\ \A j \in 1..Len(s) : CountIn(s, s[j]) <= CountIn(s, s[i])
         /\ \A j \in 1..(i - 1) : CountIn(s, s[j]) < CountIn(s, s[i])]
\* [x for x in s if P(x)]
RECURSIVE SelectSeqSet(_, _)
SelectSeqSet(s, S) ==
    IF Len(s) = 0 THEN <<>>
    ELSE (IF Head(s) \in S THEN <<Head(s)>> ELSE <<>>) \o SelectSeqSet(Tail(s), S)

\* row.get(key, "") of a dict: a row is a record, an absent key reads ""
RowGet(row, key) == IF key \in DOMAIN row THEN row[key] ELSE ""

(***************************************************************************)
(* ai_classifier.py: constants                                             *)
(***************************************************************************)
ALLOWED_EVENT_TYPES == {"application", "interview", "rejection", "offer", "other"}
STATUS_BY_EVENT ==
    [e \in ALLOWED_EVENT_TYPES |->
        CASE e = "application" -> "Applied"
          [] e = "interview" -> "Interviewing"
          [] e = "rejection" -> "Rejected"
          [] e = "offer" -> "Offer"
          [] OTHER -> "Applied"]
\* STATUS_BY_EVENT.get(event_type, "Applied")
StatusOfEvent(e) == IF e \in ALLOWED_EVENT_TYPES THEN STATUS_BY_EVENT[e] ELSE "Applied"
\* the priorities, had a rejection outranked an offer
StatusPriorityRejectedFirst(status) ==
    CASE status = "Applied" -> 1
      [] status = "Interviewing" -> 2
      [] status = "Offer" -> 3
      [] status = "Rejected" -> 4
      [] OTHER -> 0
AI_STATUS_PRIORITY(status) ==
    CASE status = "Applied" -> 1
      [] status = "Interviewing" -> 2
      [] status = "Rejected" -> 3
      [] status = "Offer" -> 4
      [] OTHER -> 0
PERSONAL_EMAIL_ROOTS == {"gmail", "outlook", "hotmail", "yahoo", "icloud", "protonmail"}
INTERMEDIARY_EMAIL_ROOTS ==
    {"ashbyhq", "codility", "codesignal", "goodtime", "greenhouse", "hackerrank",
     "hackerrankforwork", "hirevue", "icims", "jobvite", "lever", "myworkday",
     "recruitee", "smartrecruiters", "teamtailor", "workday"}
GENERIC_SENDER_TOKENS ==
    {"at", "career", "careers", "email", "hiring", "hr", "jobs", "no", "notifications",
     "noreply", "recruiting", "recruitment", "reply", "support", "talent", "team", "the",
     "via"}
CALENDAR_RSVP_PREFIXES == {"accepted:", "tentative accepted:", "declined:"}
DOMAIN_PREFIX_CANDIDATES == <<"team", "get", "my">>
INTERVIEW_ANCHOR_TERMS ==
    {"interview", "phone screen", "technical screen", "recruiter screen", "onsite",
     "final round"}
INTERVIEW_INVITE_TERMS ==
    {"invitation", "meeting invite", "calendar invite", "invite accepted",
     "google calendar", "outlook calendar", "meet google com", "teams microsoft com",
     "zoom us", "webex", "ics"}
INTERVIEW_SCHEDULED_TERMS ==
    {"has been scheduled", "is scheduled", "was scheduled", "scheduled for",
     "rescheduled", "interview confirmation", "your interview is on",
     "your interview has been scheduled"}
INTERVIEW_WEAK_FUTURE_TERMS ==
    {"we will schedule", "we'll schedule", "we would like to schedule",
     "we may schedule", "if there is strong alignment"}
COMPANY_SUFFIXES ==
    <<" inc", " llc", " ltd", " bv", " gmbh", " corp", " company", " group", " co">>
TEXT_TLDS == <<"com", "co", "io", "ai", "net", "org", "eu", "nl">>

\* any(term in text for term in terms)
ContainsAny(text, terms) == \E term \in terms : Contains(text, term)

(***************************************************************************)
(* ai_classifier.py: sender and company helpers                            *)
(***************************************************************************)
_domain_root_from_email(addr) ==
    IF ~Contains(addr, "@") THEN ""
    ELSE The({IF Len(parts) < 2 THEN "" ELSE parts[Len(parts) - 1] :
                 parts \in {SplitOn(Lower(Strip(From(addr, IndexOf(addr, "@") + 1))), ".")}})

\* the candidates of _company_from_domain_root, before the root itself
RECURSIVE PrefixCandidates(_, _, _)
PrefixCandidates(root_norm, context_norm, k) ==
    IF k > Len(DOMAIN_PREFIX_CANDIDATES) THEN <<>>
    ELSE The({IF /\ StartsWith(root_norm, DOMAIN_PREFIX_CANDIDATES[k])
                 /\ Len(stripped) >= 3
                 /\ context_norm # ""
                 /\ ContainsWord(context_norm, stripped)
              THEN <<stripped>> ELSE <<>> :
                 stripped \in {Strip(From(root_norm, Len(DOMAIN_PREFIX_CANDIDATES[k]) + 1))}})
            \o PrefixCandidates(root_norm, context_norm, k + 1)
\* min(candidates, key=len): the first of the shortest
ShortestFirst(c) ==
    c[CHOOSE i \in 1..Len(c) :
        /\ \A j \in 1..Len(c) : Len(c[i]) <= Len(c[j])
        /\ \A j \in 1..(i - 1) : Len(c[j]) > Len(c[i])]

_company_from_domain_root(root, context_text) ==
    The({IF root_norm = "" THEN ""
         ELSE IF root_norm \in PERSONAL_EMAIL_ROOTS \/ root_norm \in INTERMEDIARY_EMAIL_ROOTS
         THEN ""
         ELSE ShortestFirst(Append(PrefixCandidates(root_norm, _normalize_text(context_text), 1),
                                   root_norm)) :
            root_norm \in {_normalize_text(root)}})

_company_from_sender_domain(sender_addr, context_text) ==
    _company_from_domain_root(_domain_root_from_email(sender_addr), context_text)

\* the while loop of _strip_company_suffixes: strip the first suffix that ends c, repeat
RECURSIVE StripSuffixLoop(_)
StripSuffixLoop(c) ==
    IF c = "" \/ ~\E k \in 1..Len(COMPANY_SUFFIXES) : EndsWith(c, COMPANY_SUFFIXES[k]) THEN c
    ELSE StripSuffixLoop(Strip(Upto(c, Len(c) - Len(COMPANY_SUFFIXES[
             CHOOSE k \in 1..Len(COMPANY_SUFFIXES) :
                 /\ EndsWith(c, COMPANY_SUFFIXES[k])
                 /\ \A j \in 1..(k - 1) : ~EndsWith(c, COMPANY_SUFFIXES[j])]))))
StripTail(c, suffix) == IF EndsWith(c, suffix) THEN Strip(Upto(c, Len(c) - Len(suffix))) ELSE c
_strip_company_suffixes(value) ==
    StripTail(StripTail(StripTail(StripSuffixLoop(_normalize_text(value)), " com"), " io"),
              " co uk")

\* email.utils.parseaddr(raw)[0] for the header shapes 'Name <addr>', '"Name" <addr>'
\* and 'addr' (the standard library's parser, modelled for these shapes only)
_sender_display_name(raw_from) ==
    IF ~Contains(raw_from, "<") THEN ""
    ELSE The({IF Len(name) >= 2 /\ StartsWith(name, "\"") /\ EndsWith(name, "\"")
              THEN Strip(SubSeq(name, 2, Len(name) - 1))
              ELSE name :
                 name \in {Strip(Upto(raw_from, IndexOf(raw_from, "<") - 1))}})
\* email.utils.parseaddr(raw)[1].strip().lower(), for the same shapes
_sender_email_address(raw_from) ==
    IF ~Contains(raw_from, "<") THEN Lower(Strip(raw_from))
    ELSE The({Lower(Strip(IF ~Contains(rest, ">") THEN rest
                          ELSE Upto(rest, IndexOf(rest, ">") - 1))) :
                 rest \in {From(raw_from, IndexOf(raw_from, "<") + 1)}})

_company_from_sender_display(raw_from) ==
    The({IF tokens = <<>> THEN "" ELSE _strip_company_suffixes(JoinWords(tokens)) :
            tokens \in {The({SelectSeqSet(words, Range(words) \ GENERIC_SENDER_TOKENS) :
                                words \in {SplitWords(_normalize_text(
                                               _sender_display_name(raw_from)))}})}})

\* \b at position i of t: exactly one of t[i-1], t[i] is a word character
WordBoundary(t, i) ==
    (i >= 2 /\ i - 1 <= Len(t) /\ CharAt(t, i - 1) \in WordSet)
        # (i >= 1 /\ i <= Len(t) /\ CharAt(t, i) \in WordSet)
\* a match of \b([a-z0-9-]+)\.(?:com|co|io|ai|net|org|eu|nl)\b at position i of the
\* lowercased text: <<group(1), end of the match>>, or <<"", 0>>
TldsAt(t, p) ==
    {k \in 1..Len(TEXT_TLDS) :
        MatchAt(t, p, TEXT_TLDS[k]) /\ WordBoundary(t, p + Len(TEXT_TLDS[k]))}
TextDomainMatchAt(t, i) ==
    The({IF e >= i /\ WordBoundary(t, i) /\ MatchAt(t, e + 1, ".") /\ tlds # {}
         THEN <<SubSeq(t, i, e), e + 1 + Len(TEXT_TLDS[MinOf(tlds)])>>
         ELSE <<"", 0>> :
            <<e, tlds>> \in {The({<<end, TldsAt(t, end + 2)>> :
                                     end \in {RunEnd(t, i, AlnumLowerSet \cup {"-"})}})}})
\* re.finditer of that pattern from position i on: the groups, in order
RECURSIVE TextDomainGroups(_, _)
TextDomainGroups(t, i) ==
    The({IF hits = {} THEN <<>>
         ELSE The({<<m[1]>> \o TextDomainGroups(t, m[2] + 1) :
                      m \in {TextDomainMatchAt(t, MinOf(hits))}}) :
            hits \in {{j \in i..Len(t) : TextDomainMatchAt(t, j)[2] # 0}}})
RECURSIVE HintsOf(_, _)
HintsOf(groups, text) ==
    IF Len(groups) = 0 THEN <<>>
    ELSE The({IF hint # "" THEN <<hint>> ELSE <<>> :
                 hint \in {_company_from_domain_root(Head(groups), text)}})
            \o HintsOf(Tail(groups), text)
_company_from_text(text) ==
    The({IF Len(roots) > 0 THEN MostCommon(roots) ELSE "" :
            roots \in {HintsOf(TextDomainGroups(Lower(text), 1), text)}})

\* the noise test, had it been left out
NoCalendarRsvpNoiseTest(sender_addr, subject) == FALSE

_is_calendar_rsvp_noise(sender_addr, subject) ==
    \E root \in {_domain_root_from_email(sender_addr)}, subj \in {Lower(Strip(subject))} :
        IF root \notin PERSONAL_EMAIL_ROOTS THEN FALSE
        ELSE IF ~\E p \in CALENDAR_RSVP_PREFIXES : StartsWith(subj, p) THEN FALSE
        ELSE Contains(subj, "interview")

_has_meeting_invite_signal(subject, body) ==
    \E raw_text \in {Lower(subject \o " " \o body)} :
      \E text \in {_normalize_text(raw_text)} :
        \E has_invite \in {ContainsAny(text, INTERVIEW_INVITE_TERMS)},
           has_anchor \in {ContainsAny(text, INTERVIEW_ANCHOR_TERMS)},
           has_scheduled \in {ContainsAny(text, INTERVIEW_SCHEDULED_TERMS)},
           weak_future_only \in {ContainsAny(text, INTERVIEW_WEAK_FUTURE_TERMS)} :
          \E talk \in {has_anchor \/ Contains(text, "call") \/ Contains(text, "meeting")} :
            IF text = "" THEN FALSE
            ELSE IF has_invite /\ talk THEN TRUE
            ELSE IF has_anchor /\ has_scheduled THEN TRUE
            ELSE IF Contains(text, "invitation") /\ Contains(raw_text, "@") /\ talk THEN TRUE
            ELSE IF weak_future_only THEN FALSE
            ELSE FALSE

_effective_event_type(row) ==
    The({IF event_type # "interview" THEN event_type
         ELSE IF _has_meeting_invite_signal(RowGet(row, "subject"), RowGet(row, "body"))
         THEN "interview"
         ELSE "other" :
            event_type \in {Lower(Strip(RowGet(row, "event_type")))}})

SharesToken(a, b) == (_tokenize(a) \cap _tokenize(b)) # {}

\* the choice among the cleaned name c and the hints
\* the label, had the sender's display name played no part
CanonicalWithoutDisplay(c, root, sender_domain_hint, text_hint, display_hint) ==
    IF c # "" /\ c \notin PERSONAL_EMAIL_ROOTS /\ c \notin INTERMEDIARY_EMAIL_ROOTS THEN c
    ELSE IF text_hint # "" THEN text_hint
    ELSE IF sender_domain_hint # "" THEN sender_domain_hint
    ELSE IF c = "" /\ root # "" THEN _normalize_text(root)
    ELSE c
CanonicalAmong(c, root, sender_domain_hint, text_hint, display_hint) ==
    IF c # "" /\ c \notin PERSONAL_EMAIL_ROOTS /\ c \notin INTERMEDIARY_EMAIL_ROOTS
    THEN IF /\ sender_domain_hint # ""
            /\ \/ Contains(c, sender_domain_hint)
               \/ Contains(sender_domain_hint, c)
               \/ SharesToken(c, sender_domain_hint)
         THEN sender_domain_hint
         ELSE IF /\ text_hint # ""
                 /\ \/ Contains(c, text_hint)
                    \/ Contains(text_hint, c)
                    \/ SharesToken(c, text_hint)
         THEN text_hint
         ELSE c
    ELSE IF text_hint # "" THEN text_hint
    ELSE IF sender_domain_hint # "" THEN sender_domain_hint
    ELSE IF /\ root \in INTERMEDIARY_EMAIL_ROOTS
            /\ display_hint # ""
            /\ display_hint \notin INTERMEDIARY_EMAIL_ROOTS
         THEN display_hint
    ELSE IF c = "" /\ root # "" THEN _normalize_text(root)
    ELSE c
_canonical_company_name(raw_company, sender_addr, sender_raw, subject, body) ==
    The({The({CanonicalAmong(c, _domain_root_from_email(sender_addr),
                             _company_from_sender_domain(sender_addr, context_text),
                             _company_from_text(context_text),
                             _company_from_sender_display(sender_raw)) :
                 context_text \in {sender_raw \o " " \o subject \o " " \o body \o " " \o c}}) :
            c \in {_strip_company_suffixes(raw_company)}})

_similar_company_labels(a, b) ==
    IF a = "" \/ b = "" THEN FALSE
    ELSE IF Contains(b, a) \/ Contains(a, b) THEN TRUE
    ELSE SharesToken(a, b)

_row_company_label(row) ==
    _canonical_company_name(RowGet(row, "company"), RowGet(row, "from_email_address"),
                            RowGet(row, "from_email_raw"), RowGet(row, "subject"), "")

(***************************************************************************)
(* String order (str.__lt__) on the characters that sort keys are made of. *)
(***************************************************************************)
AsciiOrder ==
    " !\"#$%&'()*+,-./0123456789:;<=>?@ABCDEFGHIJKLMNOPQRSTUVWXYZ[\\]^_abcdefghijklmnopqrstuvwxyz{|}~"
AsciiRank ==
    [c \in CharsOf(AsciiOrder) |-> CHOOSE k \in 1..Len(AsciiOrder) : CharAt(AsciiOrder, k) = c]
CharRank(c) == IF c \in DOMAIN AsciiRank THEN AsciiRank[c] ELSE 0
StrLess(a, b) ==
    \E diff \in {{i \in 1..Len(a) : i > Len(b) \/ CharAt(a, i) # CharAt(b, i)}} :
        IF diff = {} THEN Len(a) < Len(b)
        ELSE \E i \in {MinOf(diff)} :
                i <= Len(b) /\ CharRank(CharAt(a, i)) < CharRank(CharAt(b, i))

(***************************************************************************)
(* ai_classifier.py and app/utils/llm_client.py: the verdict of the        *)
(* language model on one message.                                          *)
(*                                                                         *)
(* A message is a record [id, date, from_email, subject, snippet,          *)
(* thread_id, body]; thread_id "" stands for None.  A datetime is the      *)
(* instant it names, on the model's clock.  What one request to the model  *)
(* comes to is a record [transport, json, object]: transport is "ok" or    *)
(* the way the request failed, json tells whether the answered text holds  *)
(* a JSON object, and object is that object, a record with any of the keys *)
(* is_job_related, company, position, event_type and confidence (in        *)
(* hundredths).                                                            *)
(***************************************************************************)
\* str(n) of a natural number, and int(s) of its digits
RECURSIVE StrOfNat(_)
StrOfNat(n) ==
    IF n < 10 THEN CharAt(DigitChars, n + 1)
    ELSE StrOfNat(n \div 10) \o CharAt(DigitChars, (n % 10) + 1)
DigitValue(c) == (CHOOSE k \in 1..10 : CharAt(DigitChars, k) = c) - 1
RECURSIVE IntOfStr(_)
IntOfStr(s) ==
    IF Len(s) = 0 THEN 0
    ELSE 10 * IntOfStr(SubSeq(s, 1, Len(s) - 1)) + DigitValue(CharAt(s, Len(s)))
\* f"{c:.2f}" of a number given in hundredths
FormatHundredths(c) ==
    StrOfNat(c \div 100) \o "." \o StrOfNat((c % 100) \div 10) \o StrOfNat(c % 10)

\* the ways llm_call raises RuntimeError: DISABLE_LLM=1, no API key, an HTTP
\* error status, and a URLError (no connection, timeout)
LlmTransportFailures == {"disabled", "missing_key", "http_error", "url_error"}
\* the exception llm_call raises, "" when it returns the answer
llm_call(outcome) ==
    IF outcome.transport \in LlmTransportFailures THEN "RuntimeError" ELSE ""
\* the exception _extract_json_object raises, "" when it returns the object
_extract_json_object(outcome) == IF outcome.json THEN "" ELSE "JSONDecodeError"

\* parsed.get(key, default)
ParsedGet(parsed, key, default) == IF key \in DOMAIN parsed THEN parsed[key] ELSE default

\* the event type of the answer: one of the allowed ones, else "other"
AllowedEventType(named_type) ==
    IF named_type \in ALLOWED_EVENT_TYPES THEN named_type ELSE "other"
\* max(0.0, min(1.0, conf)) in hundredths
ClampConfidence(raw_conf) ==
    IF raw_conf < 0 THEN 0 ELSE IF raw_conf > 100 THEN 100 ELSE raw_conf
\* the row of an answer, once the noise test and the event type are at hand
LlmRowOf(message, parsed, sender_address, company, noise, final_type) ==
    [gmail_message_id |-> message.id,
     thread_id |-> message.thread_id,
     date |-> message.date,
     from_email_raw |-> message.from_email,
     from_email_address |-> sender_address,
     subject |-> Truncate(message.subject, 200),
     is_job_related |-> IF ParsedGet(parsed, "is_job_related", FALSE) /\ ~noise
                        THEN "true" ELSE "false",
     company |-> IF noise THEN "" ELSE company,
     position |-> _normalize_text(ParsedGet(parsed, "position", "")),
     event_type |-> final_type,
     status |-> StatusOfEvent(final_type),
     confidence |-> FormatHundredths(ClampConfidence(ParsedGet(parsed, "confidence", 0)))]
\* the row of the answer parsed on a message with this sender address and text
LlmRow(message, parsed, sender_address, text) ==
    The({LlmRowOf(message, parsed, sender_address,
                  _canonical_company_name(ParsedGet(parsed, "company", ""), sender_address,
                                          message.from_email, message.subject, text),
                  noise,
                  IF noise THEN "other"
                  ELSE IF event_type = "interview"
                          /\ ~_has_meeting_invite_signal(message.subject, text)
                  THEN "other"
                  ELSE event_type) :
            noise \in {_is_calendar_rsvp_noise(sender_address, message.subject)},
            event_type \in {AllowedEventType(
                                Lower(Strip(ParsedGet(parsed, "event_type", "other"))))}})

\* [raised, row]: the exception that leaves _llm_classify_single_email, or the
\* row it returns (every value through str, as classify_messages_with_llm keeps it)
_llm_classify_single_email(message, outcome) ==
    IF llm_call(outcome) # "" THEN [raised |-> llm_call(outcome), row |-> <<>>]
    ELSE IF _extract_json_object(outcome) # ""
    THEN [raised |-> _extract_json_object(outcome), row |-> <<>>]
    ELSE [raised |-> "",
          row |-> LlmRow(message, outcome.object,
                         _sender_email_address(message.from_email),
                         IF message.body # "" THEN message.body ELSE message.snippet)]

\* The messages of the runs with ai_classify, without id and date, and what the
\* requests to the model come to: the four failures, and four answers (an
\* application, an interview, an answer that follows the prompt for a message
\* that is no job mail, and one that does not).
Message(from_email, subject, snippet, thread_id, body) ==
    [from_email |-> from_email, subject |-> subject, snippet |-> snippet,
     thread_id |-> thread_id, body |-> body]
LlmMessageTemplates ==
    {Message("jobs@acme.com", "Thanks for applying", "Application received", "t1", ""),
     Message("Acme Jobs <jobs@acme.com>", "Invitation: Interview with Acme @ Tue 10:00",
             "Interview invitation", "t1", "Join the meeting invite"),
     Message("candidate@gmail.com", "Accepted: Your interview has been scheduled!",
             "", "t3", ""),
     Message("news@shop.com", "Your weekly deals", "", "t4", "")}
LlmAnswer(object) == [transport |-> "ok", json |-> TRUE, object |-> object]
LlmFailure(transport) == [transport |-> transport, json |-> FALSE, object |-> <<>>]
LlmAnswers ==
    {LlmAnswer([is_job_related |-> TRUE, company |-> "acme", position |-> "Data Analyst",
                event_type |-> "application", confidence |-> 90]),
     LlmAnswer([is_job_related |-> TRUE, company |-> "Acme Inc", position |-> "data analyst",
                event_type |-> "interview", confidence |-> 80]),
     LlmAnswer([is_job_related |-> FALSE, company |-> "", position |-> "",
                event_type |-> "other", confidence |-> 20]),
     LlmAnswer([is_job_related |-> FALSE, company |-> "acme", position |-> "",
                event_type |-> "rejection", confidence |-> 70])}
LlmOutcomes ==
    LlmAnswers \cup {LlmFailure("disabled"), LlmFailure("http_error"),
                     LlmFailure("url_error"), LlmFailure("ok")}
\* the rows these answers give on these messages, computed once
KnownLlmRows ==
    [m \in LlmMessageTemplates |->
        [o \in LlmAnswers |->
            _llm_classify_single_email([id |-> "", date |-> 0] @@ m, o).row]]

(***************************************************************************)
(* ai_classifier.py: alias merging and application grouping.               *)
(*                                                                         *)
(* A classified row is a record with the keys of the classification table. *)
(* Its date is the instant its ISO text parses to, and a negative number   *)
(* when datetime.fromisoformat raises ValueError on it.                    *)
(***************************************************************************)
DateParses(d) == d >= 0

\* The classification-table rows of the model, without message id and date:
\* senders, subjects and bodies of the repository's tests and of the scenarios
\* of its specification.
AiRow(raw, addr, subject, body, company, position, event_type, job, thread) ==
    [from_email_raw |-> raw, from_email_address |-> addr, subject |-> subject,
     body |-> body, company |-> company, position |-> position,
     event_type |-> event_type, is_job_related |-> job, thread_id |-> thread]

AiRowTemplates ==
    {AiRow("Acme Jobs <jobs@acme.com>", "jobs@acme.com", "Thanks for applying", "",
           "acme", "Data Analyst", "application", "true", "t1"),
     AiRow("jobs@acme.com", "jobs@acme.com",
           "Invitation: Interview with Acme @ Tue 10:00", "",
           "Acme Inc", "data analyst", "interview", "true", "t1"),
     AiRow("talent@acme.com", "talent@acme.com", "Acme // Nice to Meet You!",
           "If there is strong alignment we will schedule a call to get to know you better.",
           "acme", "", "interview", "true", "t1"),
     AiRow("talent@acme.com", "talent@acme.com", "Acme // Data Analytics Engineer",
           "If there is strong alignment we will schedule a call to get to know you better.",
           "acme", "", "interview", "true", "t1"),
     AiRow("jobs@acme.com", "jobs@acme.com", "Update on your application at Acme", "",
           "acme", "analyst", "rejection", "true", "t1"),
     AiRow("jobs@beta.io", "jobs@beta.io", "Your Beta offer", "",
           "beta", "engineer", "offer", "true", "t2"),
     AiRow("candidate@gmail.com", "candidate@gmail.com",
           "Accepted: Your interview has been scheduled!", "",
           "gmail", "", "interview", "true", "t3"),
     AiRow("news@shop.com", "news@shop.com", "Your weekly deals", "",
           "", "", "other", "false", "t4")}

\* Rows whose company labels differ under one sender: the senders of the
\* repository's tests on alias merging and vendor routing, a company domain that
\* its labels do not resemble, and an applicant-tracking vendor, each with the
\* company names the model reply may carry.
AliasRowTemplates ==
    {AiRow("\"CompanyA Hiring Team\" <hiring@teamcompanya.com>", "hiring@teamcompanya.com",
           "Your CompanyA Offer", "", "companya", "data engineer", "offer", "true", "t16"),
     AiRow("hiring@teamcompanya.com", "hiring@teamcompanya.com",
           "Invitation: Recruiter call", "", "teamcompanya", "", "interview", "true", "t17"),
     AiRow("\"ExampleCo Hiring Team\" <support@hackerrankforwork.com>",
           "support@hackerrankforwork.com", "Your coding assessment invitation", "",
           "hackerrank", "data analytics engineer", "application", "true", "t8"),
     AiRow("\"HackerRank Team\" <support@hackerrankforwork.com>",
           "support@hackerrankforwork.com", "Your coding assessment invitation", "",
           "", "", "application", "true", "t9"),
     AiRow("\"ExampleCo @ icims\" <workingatexample+x@talent.icims.eu>",
           "workingatexample+x@talent.icims.eu", "Your interview has been scheduled!", "",
           "exampleco", "data analytics engineer", "interview", "true", "t9")}
    \cup {AiRow(addr, addr, "Application received", "", company, "", "application",
                "true", "t1") :
             addr \in {"jobs@holdco.com", "no-reply@greenhouse.io", "jane@gmail.com"},
             company \in {"alpha", "alpha beta", "beta alpha", "gamma"}}

\* Rows of two companies, one of which both rejects and makes an offer, beside
\* a calendar RSVP and a newsletter: the rows on which the table and the
\* summary are compared.
TableRowTemplates ==
    {AiRow("Acme Jobs <jobs@acme.com>", "jobs@acme.com", "Thanks for applying", "",
           "acme", "Data Analyst", "application", "true", "t1"),
     AiRow("jobs@acme.com", "jobs@acme.com", "Update on your application at Acme", "",
           "acme", "analyst", "rejection", "true", "t1"),
     AiRow("jobs@acme.com", "jobs@acme.com", "Your Acme offer", "",
           "acme", "analyst", "offer", "true", "t1"),
     AiRow("jobs@beta.io", "jobs@beta.io", "Thanks for applying to Beta", "",
           "beta", "engineer", "application", "true", "t2"),
     AiRow("jobs@beta.io", "jobs@beta.io", "Your Beta offer", "",
           "beta", "engineer", "offer", "true", "t2"),
     AiRow("candidate@gmail.com", "candidate@gmail.com",
           "Accepted: Your interview has been scheduled!", "",
           "gmail", "", "interview", "true", "t3"),
     AiRow("news@shop.com", "news@shop.com", "Your weekly deals", "",
           "", "", "other", "false", "t4")}

\* what the builders read off one row: none of it depends on the row's message
\* id or date
RowTexts(row) == [k \in DOMAIN row \ {"gmail_message_id", "date", "facts"} |-> row[k]]
RowFactsOf(row) ==
    [root |-> _domain_root_from_email(RowGet(row, "from_email_address")),
     noise |-> _is_calendar_rsvp_noise(RowGet(row, "from_email_address"),
                                       RowGet(row, "subject")),
     label |-> _row_company_label(row),
     effective |-> _effective_event_type(row),
     position |-> _normalize_text(RowGet(row, "position"))]
\* the facts of the rows above, computed once
KnownRowTexts ==
    AiRowTemplates
    \cup AliasRowTemplates
    \cup TableRowTemplates
    \cup {RowTexts(KnownLlmRows[m][o]) : m \in LlmMessageTemplates, o \in LlmAnswers}
KnownRowFacts == [t \in KnownRowTexts |-> RowFactsOf(t)]
FactsOfRow(row) ==
    The({IF t \in DOMAIN known THEN known[t] ELSE RowFactsOf(t) :
            t \in {RowTexts(row)}, known \in {KnownRowFacts}})
\* the rows, each with its facts at hand, and the facts of such a row
WithFacts(message_rows) ==
    [i \in 1..Len(message_rows) |->
        [facts |-> FactsOfRow(message_rows[i])] @@ message_rows[i]]
RowFacts(row) == row.facts

\* the test, had it counted the rows of every sender with a domain root
AliasCountedWhateverRoot(r) ==
    /\ RowGet(r, "is_job_related") = "true"
    /\ ~RowFacts(r).noise
    /\ RowFacts(r).root # ""
    /\ RowFacts(r).label # ""
\* the rows that _build_domain_alias_map counts, in order
AliasCounted(r) ==
    /\ RowGet(r, "is_job_related") = "true"
    /\ ~RowFacts(r).noise
    /\ RowFacts(r).root # ""
    /\ RowFacts(r).root \notin PERSONAL_EMAIL_ROOTS
    /\ RowFacts(r).root \notin INTERMEDIARY_EMAIL_ROOTS
    /\ RowFacts(r).label # ""
RECURSIVE AliasRows(_)
AliasRows(message_rows) ==
    IF Len(message_rows) = 0 THEN <<>>
    ELSE AliasRows(SubSeq(message_rows, 1, Len(message_rows) - 1))
            \o (IF AliasCounted(message_rows[Len(message_rows)])
                THEN <<message_rows[Len(message_rows)]>> ELSE <<>>)

\* the alias target of one domain root: labels are the keys of its Counter in
\* insertion order, all is the label of every counted row of the root
AliasScore(lbl, labels, all) ==
    <<Cardinality({i \in 1..Len(all) : _similar_company_labels(lbl, all[i])}),
      CountIn(all, lbl),
      0 - Len(lbl)>>
TupleLess(x, y) ==
    \/ x[1] < y[1]
    \/ x[1] = y[1] /\ x[2] < y[2]
    \/ x[1] = y[1] /\ x[2] = y[2] /\ x[3] < y[3]
\* the target, had it been the first label the root was seen with
AliasTargetFirstSeen(labels, all) == labels[1]
\* max(labels, key=scores): the first label with the greatest score
AliasTarget(labels, all) ==
    The({labels[CHOOSE i \in 1..Len(labels) :
                   /\ \A j \in 1..Len(labels) : ~TupleLess(score[i], score[j])
                   /\ \A j \in 1..(i - 1) : TupleLess(score[j], score[i])] :
            score \in {[i \in 1..Len(labels) |-> AliasScore(labels[i], labels, all)]}})

\* the alias map: a function from the pairs <<root, label>> it holds to their target
\* the elements of s at the positions idx, in order
AtPositions(s, idx) == [k \in 1..Cardinality(idx) |-> s[KthOf(idx, k)]]
\* by_root: under each domain root the label of every counted row of the root
LabelsByRoot(counted) ==
    [root \in {RowFacts(counted[i]).root : i \in 1..Len(counted)} |->
        AtPositions([i \in 1..Len(counted) |-> RowFacts(counted[i]).label],
                    {i \in 1..Len(counted) : RowFacts(counted[i]).root = root})]
\* the alias map, had the target been entered as an alias of itself
AliasMapWithTargetAsKey(message_rows) ==
    The({The({[p \in {q \in UNION {{<<root, label>> : label \in Range(allOf[root])} :
                                      root \in DOMAIN allOf} :
                         /\ Cardinality(Range(allOf[q[1]])) >= 2
                         /\ _similar_company_labels(q[2], targetOf[q[1]])}
               |-> targetOf[p[1]]] :
                 targetOf \in {[root \in DOMAIN allOf |->
                                   AliasTarget(SeqDistinct(allOf[root]), allOf[root])]}}) :
            allOf \in {LabelsByRoot(AliasRows(message_rows))}})
_build_domain_alias_map(message_rows) ==
    The({The({[p \in {q \in UNION {{<<root, label>> : label \in Range(allOf[root])} :
                                      root \in DOMAIN allOf} :
                         /\ Cardinality(Range(allOf[q[1]])) >= 2
                         /\ q[2] # targetOf[q[1]]
                         /\ _similar_company_labels(q[2], targetOf[q[1]])}
               |-> targetOf[p[1]]] :
                 targetOf \in {[root \in DOMAIN allOf |->
                                   AliasTarget(SeqDistinct(allOf[root]), allOf[root])]}}) :
            allOf \in {LabelsByRoot(AliasRows(message_rows))}})

_resolved_row_company(row, alias_map) ==
    IF /\ RowFacts(row).root # ""
       /\ RowFacts(row).label # ""
       /\ <<RowFacts(row).root, RowFacts(row).label>> \in DOMAIN alias_map
    THEN alias_map[<<RowFacts(row).root, RowFacts(row).label>>]
    ELSE RowFacts(row).label

\* the application id a row is grouped under
AppIdOf(r, alias_map) ==
    The({IF company # "" THEN company
         ELSE IF thread_id # "" THEN "thread:" \o thread_id
         ELSE "msg:" \o RowGet(r, "gmail_message_id") :
            company \in {_resolved_row_company(r, alias_map)},
            thread_id \in {Strip(RowGet(r, "thread_id"))}})

\* the rows that open or join an application, in order
RECURSIVE GroupedRows(_)
GroupedRows(message_rows) ==
    IF Len(message_rows) = 0 THEN <<>>
    ELSE GroupedRows(SubSeq(message_rows, 1, Len(message_rows) - 1))
            \o (IF /\ RowGet(message_rows[Len(message_rows)], "is_job_related") = "true"
                   /\ ~RowFacts(message_rows[Len(message_rows)]).noise
                THEN <<message_rows[Len(message_rows)]>> ELSE <<>>)

\* grouped: the alias map, the application ids in insertion order, and under
\* each id's position the rows of that application, in order
GroupedUnder(alias_map, kept, app_of, ids) ==
    [alias_map |-> alias_map,
     ids |-> ids,
     groups |-> [g \in 1..Len(ids) |->
                    AtPositions(kept, {i \in 1..Len(kept) : app_of[i] = ids[g]})]]
GroupedOf(rows) ==
    The({The({GroupedUnder(alias_map, kept, app_of, SeqDistinct(app_of)) :
                 app_of \in {[i \in 1..Len(kept) |-> AppIdOf(kept[i], alias_map)]}}) :
            alias_map \in {_build_domain_alias_map(rows)}, kept \in {GroupedRows(rows)}})
Grouped(message_rows) == GroupedOf(WithFacts(message_rows))

\* the sequence s without the elements outside S, in order
RECURSIVE DropEmpty(_)
DropEmpty(s) ==
    IF Len(s) = 0 THEN <<>>
    ELSE (IF Head(s) # "" THEN <<Head(s)>> ELSE <<>>) \o DropEmpty(Tail(s))

\* the day of an instant
DateOf(d) == d \div TicksPerDay

\* the sort key of a row in the best-row loop: the priority of its status, and
\* its date (datetime.min, here -1, when the date does not parse)
RowPriority(r) == AI_STATUS_PRIORITY(StatusOfEvent(RowFacts(r).effective))
RowDate(r) == IF DateParses(r.date) THEN r.date ELSE 0 - 1

\* the best-row loop, had it kept the latest row whatever its status
BestStepLatest(best, r, i) ==
    IF best.idx = 0 \/ RowDate(r) > best.dt
    THEN [idx |-> i, prio |-> RowPriority(r), dt |-> RowDate(r), raised |-> FALSE]
    ELSE best

\* The best-row loop of build_application_rows. key > best_key compares the
\* priorities and, when they are equal, the dates; a date that does not parse
\* stands as datetime.min, which has no UTC offset, and comparing it with a parsed
\* date (which has one: every adapter yields UTC dates) raises TypeError.
BestStep(best, r, i) ==
    IF best.raised THEN best
    ELSE IF RowPriority(r) = best.prio /\ DateParses(RowDate(r)) # DateParses(best.dt)
    THEN [best EXCEPT !.raised = TRUE]
    ELSE IF \/ RowPriority(r) > best.prio
            \/ RowPriority(r) = best.prio /\ RowDate(r) > best.dt
    THEN [idx |-> i, prio |-> RowPriority(r), dt |-> RowDate(r), raised |-> FALSE]
    ELSE best
RECURSIVE BestLoop(_, _, _)
BestLoop(best, group, i) ==
    IF i > Len(group) THEN best ELSE BestLoop(BestStep(best, group[i], i), group, i + 1)
BestOf(group) ==
    BestLoop([idx |-> 0, prio |-> 0 - 1, dt |-> 0 - 1, raised |-> FALSE], group, 1)

\* one row of the application table
\* Counter(values).most_common(1)[0][0] if values else ""
MostCommonOrEmpty(values) == IF Len(values) > 0 THEN MostCommon(values) ELSE ""
ApplicationRowOf(app_id, group, companies, positions, parsed_dates, best) ==
    [application_id |-> app_id,
     company |-> MostCommonOrEmpty(companies),
     position |-> MostCommonOrEmpty(positions),
     application_date |-> DateOf(MinOf(parsed_dates)),
     current_status |-> StatusOfEvent(RowFacts(best).effective),
     last_event_date |-> MaxOf(parsed_dates),
     email_count |-> Len(group),
     evidence_subject |-> Truncate(RowGet(best, "subject"), 160)]
ApplicationRow(app_id, group, alias_map, best_idx) ==
    ApplicationRowOf(
        app_id, group,
        DropEmpty([i \in 1..Len(group) |-> _resolved_row_company(group[i], alias_map)]),
        DropEmpty([i \in 1..Len(group) |-> RowFacts(group[i]).position]),
        {group[i].date : i \in {j \in 1..Len(group) : DateParses(group[j].date)}},
        group[best_idx])

\* rows.sort(key=lambda r: (r["company"], r["position"], r["application_date"]))
AppRowLess(a, b) ==
    \/ StrLess(a.company, b.company)
    \/ a.company = b.company /\ StrLess(a.position, b.position)
    \/ a.company = b.company /\ a.position = b.position
          /\ a.application_date < b.application_date
\* list.sort (stable) of a sequence under a strict weak order
SortRank(rows, i) ==
    Cardinality({j \in 1..Len(rows) : AppRowLess(rows[j], rows[i])})
        + Cardinality({j \in 1..(i - 1) :
                          ~AppRowLess(rows[j], rows[i]) /\ ~AppRowLess(rows[i], rows[j])})
        + 1
SortRows(rows) ==
    [k \in 1..Len(rows) |-> rows[CHOOSE i \in 1..Len(rows) : SortRank(rows, i) = k]]

\* the result is [error, rows]: error is "" and rows the table, or error names the
\* exception that the call raised
ApplicationRowsOf(g) ==
    The({IF \E i \in DOMAIN best : best[i].raised
         THEN [error |-> "TypeError", rows |-> <<>>]
         ELSE [error |-> "",
               rows |-> SortRows(AtPositions(
                            [i \in 1..Len(g.ids) |->
                                IF i \in DOMAIN best
                                THEN ApplicationRow(g.ids[i], g.groups[i], g.alias_map,
                                                    best[i].idx)
                                ELSE <<>>],
                            DOMAIN best))] :
            best \in {[i \in {j \in 1..Len(g.ids) :
                                 \E k \in 1..Len(g.groups[j]) :
                                     DateParses(g.groups[j][k].date)}
                       |-> BestOf(g.groups[i])]}})
build_application_rows(message_rows) == ApplicationRowsOf(Grouped(message_rows))

\* the effective event types of one application
EventTypesOf(group) == {RowFacts(group[i]).effective : i \in 1..Len(group)}

\* the counting loop, had it counted every rejection as one without interview
SummaryStepEveryRejectionDirect(acc, event_types) ==
    LET has_interview == "interview" \in event_types
        has_rejection == "rejection" \in event_types
        has_offer == "offer" \in event_types
        has_response == has_interview \/ has_rejection \/ has_offer
    IN [applications |-> acc.applications,
        interviews |-> acc.interviews + (IF has_interview THEN 1 ELSE 0),
        no_response |-> acc.no_response + (IF ~has_response THEN 1 ELSE 0),
        rejections_total |-> acc.rejections_total + (IF has_rejection THEN 1 ELSE 0),
        rejections_with_interview |->
            acc.rejections_with_interview
                + (IF has_rejection /\ has_interview THEN 1 ELSE 0),
        rejections_without_interview |->
            acc.rejections_without_interview + (IF has_rejection THEN 1 ELSE 0),
        offers |-> acc.offers + (IF has_offer THEN 1 ELSE 0)]

\* the counting loop, had it taken an application without interview for one
\* without response
SummaryStepNoInterviewIsNoResponse(acc, event_types) ==
    LET has_interview == "interview" \in event_types
        has_rejection == "rejection" \in event_types
        has_offer == "offer" \in event_types
    IN [applications |-> acc.applications,
        interviews |-> acc.interviews + (IF has_interview THEN 1 ELSE 0),
        no_response |-> acc.no_response + (IF ~has_interview THEN 1 ELSE 0),
        rejections_total |-> acc.rejections_total + (IF has_rejection THEN 1 ELSE 0),
        rejections_with_interview |->
            acc.rejections_with_interview
                + (IF has_rejection /\ has_interview THEN 1 ELSE 0),
        rejections_without_interview |->
            acc.rejections_without_interview
                + (IF has_rejection /\ ~has_interview THEN 1 ELSE 0),
        offers |-> acc.offers + (IF has_offer THEN 1 ELSE 0)]

\* one pass of the counting loop of build_ai_result_summary
SummaryStep(acc, event_types) ==
    LET has_interview == "interview" \in event_types
        has_rejection == "rejection" \in event_types
        has_offer == "offer" \in event_types
        has_response == has_interview \/ has_rejection \/ has_offer
    IN [applications |-> acc.applications,
        interviews |-> acc.interviews + (IF has_interview THEN 1 ELSE 0),
        no_response |-> acc.no_response + (IF ~has_response THEN 1 ELSE 0),
        rejections_total |-> acc.rejections_total + (IF has_rejection THEN 1 ELSE 0),
        rejections_with_interview |->
            acc.rejections_with_interview
                + (IF has_rejection /\ has_interview THEN 1 ELSE 0),
        rejections_without_interview |->
            acc.rejections_without_interview
                + (IF has_rejection /\ ~has_interview THEN 1 ELSE 0),
        offers |-> acc.offers + (IF has_offer THEN 1 ELSE 0)]
RECURSIVE SummaryLoop(_, _, _)
SummaryLoop(acc, type_sets, k) ==
    IF k > Len(type_sets) THEN acc
    ELSE SummaryLoop(SummaryStep(acc, type_sets[k]), type_sets, k + 1)

SummaryOf(g) ==
    SummaryLoop([applications |-> Len(g.ids), interviews |-> 0, no_response |-> 0,
                 rejections_total |-> 0, rejections_with_interview |-> 0,
                 rejections_without_interview |-> 0, offers |-> 0],
                [i \in 1..Len(g.ids) |-> EventTypesOf(g.groups[i])], 1)
build_ai_result_summary(message_rows) == SummaryOf(Grouped(message_rows))

(***************************************************************************)
(* The table and summary builders on lists of classified rows.             *)
(*                                                                         *)
(* The rows are drawn from the classification-table rows below (senders,   *)
(* subjects and bodies of the repository's tests and of the scenarios of   *)
(* its specification), each with a date and, where the row names no        *)
(* company, a thread.                                                      *)
(***************************************************************************)
\* a date that does not parse, and two instants on different days
RowDates == {0 - 1, 0, TicksPerDay}
\* the dates a row is drawn with: one for a row that the builders skip before
\* they read its date
DatesFor(t) ==
    IF t.is_job_related # "true" \/ KnownRowFacts[t].noise THEN {0} ELSE RowDates

ZeroSummary ==
    [applications |-> 0, interviews |-> 0, no_response |-> 0, rejections_total |-> 0,
     rejections_with_interview |-> 0, rejections_without_interview |-> 0, offers |-> 0]

\* "m1", "m2", ...: the message id of the k-th row
MessageId(k) == "m" \o CharAt(DigitChars, k + 1)

\* the variables of run() before a call
ZeroResult ==
    [metrics |-> [applications |-> 0, replies |-> 0, no_replies |-> 0, oa |-> 0,
                  withdrawn |-> 0, interviews |-> 0, offers |-> 0, rejected |-> 0],
     rates |-> [reply_rate_pct |-> 0, oa_rate_from_replies_pct |-> 0,
                interview_rate_from_oa_pct |-> 0, offer_rate_from_interviews_pct |-> 0,
                rejection_rate_from_interviews_pct |-> 0, application_to_offer_pct |-> 0],
     warnings |-> <<>>]
RuleIdle ==
    /\ normalized = <<>>
    /\ first_scan_rows = <<>>
    /\ events = <<>>
    /\ app_has_interview = {}
    /\ report_rows = <<>>
    /\ summary_message_rows = <<>>
    /\ audit_rows = <<>>
    /\ app_summary_rows = <<>>
    /\ result = ZeroResult
AiIdle ==
    /\ ai_msg_rows = <<>>
    /\ grouped = [alias_map |-> <<>>, ids |-> <<>>, groups |-> <<>>]
    /\ ai_app_rows = [error |-> "", rows |-> <<>>]
    /\ ai_summary = ZeroSummary

OuterIdle ==
    /\ scans = <<>>
    /\ sessions = <<>>
    /\ runtime_fs = <<>>
    /\ oauth = [pc |-> "idle"]
    /\ ai_sankey = <<>>

AiInit ==
    /\ phase = "rows"
    /\ ai_classify = TRUE
    /\ options = {}
    /\ normalized_all = <<>>
    /\ RuleIdle
    /\ OuterIdle
    /\ artifacts = {}
    /\ raised = ""
    /\ ai_msg_rows = <<>>
    /\ grouped = [alias_map |-> <<>>, ids |-> <<>>, groups |-> <<>>]
    /\ ai_app_rows = [error |-> "", rows |-> <<>>]
    /\ ai_summary = ZeroSummary

\* one more classified row in the list
AddRow ==
    /\ phase = "rows"
    /\ Len(ai_msg_rows) < MaxRows
    /\ \E t \in AiRowTemplates : \E d \in DatesFor(t) :
          ai_msg_rows' = Append(ai_msg_rows,
              [gmail_message_id |-> MessageId(Len(ai_msg_rows) + 1), date |-> d] @@ t)
    /\ UNCHANGED <<phase, grouped, ai_app_rows, ai_summary, runVars>>

\* build_application_rows(rows) and build_ai_result_summary(rows), as run() calls them
BuildAiTables ==
    /\ phase = "rows"
    /\ phase' = "built"
    /\ grouped' = Grouped(ai_msg_rows)
    /\ ai_app_rows' = ApplicationRowsOf(grouped')
    /\ ai_summary' = SummaryOf(grouped')
    /\ UNCHANGED <<ai_msg_rows, runVars>>

AiNext == AddRow \/ BuildAiTables
SpecAI == AiInit /\ [][AiNext]_vars

\* The same builders on lists of the rows whose company labels differ under one
\* sender, each dated at instant 0.
AddAliasRow ==
    /\ phase = "rows"
    /\ Len(ai_msg_rows) < MaxRows
    /\ \E t \in AliasRowTemplates :
          ai_msg_rows' = Append(ai_msg_rows,
              [gmail_message_id |-> MessageId(Len(ai_msg_rows) + 1), date |-> 0] @@ t)
    /\ UNCHANGED <<phase, grouped, ai_app_rows, ai_summary, runVars>>
AliasNext == AddAliasRow \/ BuildAiTables
SpecAlias == AiInit /\ [][AliasNext]_vars

\* The same builders on lists of the rows of TableRowTemplates, each with a
\* date that parses.
ParsedRowDates == {0, TicksPerDay}
AddTableRow ==
    /\ phase = "rows"
    /\ Len(ai_msg_rows) < MaxRows
    /\ \E t \in TableRowTemplates :
          \E d \in (IF t.is_job_related # "true" \/ KnownRowFacts[t].noise
                    THEN {0} ELSE ParsedRowDates) :
             ai_msg_rows' = Append(ai_msg_rows,
                 [gmail_message_id |-> MessageId(Len(ai_msg_rows) + 1), date |-> d] @@ t)
    /\ UNCHANGED <<phase, grouped, ai_app_rows, ai_summary, runVars>>
TablesNext == AddTableRow \/ BuildAiTables
SpecTables == AiInit /\ [][TablesNext]_vars

(***************************************************************************)
(* Properties of the table and summary builders.                           *)
(***************************************************************************)
\* the effective event types of the application with this id
AiGroupOf(app_id) ==
    grouped.groups[CHOOSE g \in 1..Len(grouped.ids) : grouped.ids[g] = app_id]
ResponseTypes == {"interview", "rejection", "offer"}

\* C2: in the table of build_application_rows, an application with a row whose
\* effective event type is rejection or offer has current_status Rejected or
\* Offer, and never Applied or Interviewing, whatever the order and the dates of
\* its rows.
C2_AiTerminalStatusWins ==
    phase = "built" =>
        \A k \in 1..Len(ai_app_rows.rows) :
              LET app == ai_app_rows.rows[k]
                  types == EventTypesOf(AiGroupOf(app.application_id))
              IN ("rejection" \in types \/ "offer" \in types) =>
                    /\ app.current_status \in {"Rejected", "Offer"}
                    /\ app.current_status \notin {"Applied", "Interviewing"}

\* an application is Rejected although an honored interview row of it is dated
\* after its rejection row
C2_RejectedBeforeLaterInterview ==
    /\ phase = "built"
    /\ \E k \in 1..Len(ai_app_rows.rows) :
          LET app == ai_app_rows.rows[k]
              group == AiGroupOf(app.application_id)
          IN /\ app.current_status = "Rejected"
             /\ \E i, j \in 1..Len(group) :
                   /\ RowFacts(group[i]).effective = "rejection"
                   /\ RowFacts(group[j]).effective = "interview"
                   /\ DateParses(group[i].date)
                   /\ group[i].date < group[j].date

\* C3: in every summary of build_ai_result_summary the rejections with and
\* without interview add up to rejections_total, and each of the seven counts
\* is at least 0.
C3_SummaryRejectionsAddUp ==
    phase = "built" =>
        /\ ai_summary.rejections_with_interview + ai_summary.rejections_without_interview
              = ai_summary.rejections_total
        /\ \A key \in DOMAIN ai_summary : ai_summary[key] >= 0
        /\ DOMAIN ai_summary = {"applications", "interviews", "no_response",
                                "rejections_total", "rejections_with_interview",
                                "rejections_without_interview", "offers"}

\* a summary with a rejection after an interview among several applications
C3_RejectionAfterInterviewCounted ==
    /\ phase = "built"
    /\ ai_summary.rejections_with_interview = 1
    /\ ai_summary.applications >= 2

\* C4: an application is counted in no_response exactly when its effective event
\* types hold none of interview, rejection and offer; it adds at most 1 to each
\* of no_response, interviews, rejections_total and offers; so no_response plus
\* the applications with a response is applications, and interviews +
\* no_response + rejections_without_interview is at most applications.
C4_NoResponseIffNoReplySignal ==
    phase = "built" =>
        LET apps == 1..Len(grouped.ids)
            types == [g \in apps |-> EventTypesOf(grouped.groups[g])]
            responded == {g \in apps : types[g] \cap ResponseTypes # {}}
        IN /\ ai_summary.applications = Cardinality(apps)
           /\ ai_summary.no_response = Cardinality(apps \ responded)
           /\ ai_summary.interviews = Cardinality({g \in apps : "interview" \in types[g]})
           /\ ai_summary.rejections_total
                 = Cardinality({g \in apps : "rejection" \in types[g]})
           /\ ai_summary.offers = Cardinality({g \in apps : "offer" \in types[g]})
           /\ ai_summary.no_response + Cardinality(responded) = ai_summary.applications
           /\ ai_summary.interviews + ai_summary.no_response
                 + ai_summary.rejections_without_interview <= ai_summary.applications

\* a summary with an application without response next to one with an offer
C4_NoResponseNextToOffer ==
    /\ phase = "built"
    /\ ai_summary.applications = 2
    /\ ai_summary.no_response = 1
    /\ ai_summary.offers = 1

\* The scheduling language of a row as a reader finds it: a term is in the text
\* when its words stand there as words.
RowText(row) == _normalize_text(Lower(RowGet(row, "subject") \o " " \o RowGet(row, "body")))
HasTermAsWords(text, terms) == \E term \in terms : ContainsWord(text, term)
WeakFutureOnlyInterviewRow(row) ==
    /\ RowGet(row, "event_type") = "interview"
    /\ HasTermAsWords(RowText(row), INTERVIEW_WEAK_FUTURE_TERMS)
    /\ ~HasTermAsWords(RowText(row), INTERVIEW_INVITE_TERMS)
    /\ ~HasTermAsWords(RowText(row), INTERVIEW_SCHEDULED_TERMS)

\* C8: an interview-typed row whose only scheduling language is weak-future is
\* not honored, and an application made of such a row followed by a rejection
\* has interviews = 0, rejections_with_interview = 0 and
\* rejections_without_interview = 1.
C8_WeakFutureRowNotHonored ==
    phase = "built" =>
        /\ \A i \in 1..Len(ai_msg_rows) :
              WeakFutureOnlyInterviewRow(ai_msg_rows[i])
                  => _effective_event_type(ai_msg_rows[i]) # "interview"
        /\ (/\ Len(ai_msg_rows) = 2
            /\ WeakFutureOnlyInterviewRow(ai_msg_rows[1])
            /\ RowGet(ai_msg_rows[2], "event_type") = "rejection"
            /\ ai_summary.applications = 1 /\ Len(grouped.groups[1]) = 2)
              => /\ ai_summary.interviews = 0
                 /\ ai_summary.rejections_with_interview = 0
                 /\ ai_summary.rejections_without_interview = 1

\* The row of the claim: sent from a personal mailbox, with a subject that starts
\* with a calendar-RSVP prefix and contains "interview".
PersonalRsvpInterviewRow(row) ==
    LET addr == RowGet(row, "from_email_address")
        subj == Lower(Strip(RowGet(row, "subject")))
    IN /\ \E root \in PERSONAL_EMAIL_ROOTS :
             \/ EndsWith(addr, "@" \o root \o ".com")
             \/ Contains(addr, "@") /\ EndsWith(addr, "." \o root \o ".com")
       /\ \E prefix \in CALENDAR_RSVP_PREFIXES : StartsWith(subj, prefix)
       /\ Contains(subj, "interview")
WithoutRsvpRows(rows) == SelectSeq(rows, LAMBDA r : ~PersonalRsvpInterviewRow(r))

\* C10: a calendar-RSVP row from a personal mailbox opens and joins no
\* application and adds to no count, even when it is marked job related with
\* event type interview: the table and the summary are those of the rows
\* without it.
C10_RsvpNoiseRowAbsent ==
    (phase = "built" /\ \E i \in 1..Len(ai_msg_rows) : PersonalRsvpInterviewRow(ai_msg_rows[i]))
        => /\ ai_app_rows = build_application_rows(WithoutRsvpRows(ai_msg_rows))
           /\ ai_summary = build_ai_result_summary(WithoutRsvpRows(ai_msg_rows))

\* an RSVP row marked as an interview next to the employer's interview row: one
\* application, one interview
C10_RsvpRowBesideRealInterview ==
    /\ phase = "built"
    /\ \E i, j \in 1..Len(ai_msg_rows) :
          /\ PersonalRsvpInterviewRow(ai_msg_rows[i])
          /\ ai_msg_rows[i].is_job_related = "true"
          /\ ai_msg_rows[i].event_type = "interview"
          /\ FactsOfRow(ai_msg_rows[j]).effective = "interview"
    /\ ai_summary.applications = 1
    /\ ai_summary.interviews = 1

(***************************************************************************)
(* classifiers/rules.py: the deterministic classifier.                     *)
(*                                                                         *)
(* A message is a record [id, date, from_email, subject, snippet,          *)
(* thread_id, body]; thread_id "" stands for None.  A confidence is kept   *)
(* in hundredths.                                                          *)
(***************************************************************************)
FREE_DOMAINS ==
    {"gmail.com", "outlook.com", "hotmail.com", "yahoo.com", "icloud.com",
     "proton.me", "protonmail.com"}
ATS_HINTS ==
    {"greenhouse.io", "ashbyhq.com", "lever.co", "workday.com", "myworkday.com",
     "smartrecruiters.com", "jobvite.com", "icims.com"}
INTERVIEW_ANCHOR_PHRASES ==
    {"interview", "conversation", "phone screen", "recruiter screen", "hiring manager"}
INTERVIEW_SCHEDULING_PHRASES ==
    {"schedule", "scheduled", "availability", "next steps", "invite", "invitation",
     "confirmation", "reschedule", "calendar"}
INTERVIEW_NEGATIVE_PHRASES ==
    {"invoice", "receipt", "bill", "billing", "statement", "payment",
     "candidate profile", "profile purge", "profile is about to be purged",
     "order execution"}
IGNORE_SUBJECT_PREFIX == {"accepted:", "declined:", "tentative:"}

OFFER_PATTERNS == <<"offer letter", "pleased to offer", "extend an offer">>
REJECTION_DECISION_PATTERNS ==
    <<"decided not to progress your application",
      "not to progress your application further",
      "not progress your application further",
      "will not be progressing your application",
      "not be taking your application forward",
      "we have decided not to progress your application further on this occasion",
      "journey has come to an end",
      "candidate rejection">>
REJECTION_CONTEXT_PATTERNS == <<"after careful consideration", "unfortunately">>
REJECTION_VERB_PATTERNS ==
    <<"not moving forward", "regret to inform", "unsuccessful",
      "position has been filled", "no longer under consideration", "not progress",
      "not be progressing", "not be taking .* forward">>
REJECTION_CORE_PATTERNS ==
    REJECTION_DECISION_PATTERNS \o
    <<"not moving forward", "regret to inform", "unsuccessful",
      "position has been filled", "no longer under consideration",
      "application status">>
WITHDRAWN_PATTERNS == <<"withdraw(n)? (my )?application", "withdrawal", "withdrawn">>
OA_PATTERNS ==
    <<"\\boa\\b", "online assessment", "take-home", "hackerrank", "codility", "assessment">>
ROUND_UPDATE_PATTERNS == <<"round\\s*[1-4]", "final round", "panel interview">>
STATUS_UPDATE_PATTERNS ==
    <<"application update", "status update", "update on your application">>
APPLICATION_RECEIVED_PATTERNS ==
    <<"thanks for applying", "thank you for applying", "application received",
      "application confirmation", "regarding your application",
      "update on your application">>

_norm_text(value) == _normalize_text(value)

\* re.search(r"@([A-Za-z0-9_.-]+)", from_email), lowercased; "" without a match
DomainCharSet == WordSet \cup {".", "-"}
DomainFrom(from_email, i) ==
    Lower(SubSeq(from_email, i + 1, RunEnd(from_email, i + 1, DomainCharSet)))
_extract_domain(from_email) ==
    The({IF ats = {} THEN "" ELSE DomainFrom(from_email, MinOf(ats)) :
            ats \in {{i \in 1..(Len(from_email) - 1) :
                         /\ CharAt(from_email, i) = "@"
                         /\ CharAt(from_email, i + 1) \in DomainCharSet}}})

_company_name_from_domain(domain) ==
    IF domain = "" THEN ""
    ELSE The({IF Len(parts) < 2 THEN parts[1] ELSE parts[Len(parts) - 1] :
                 parts \in {SplitOn(domain, ".")}})

\* re.sub(r"\s+", " ", t)
CollapseSpaces(t) ==
    ConcatRange([i \in 1..Len(t) |->
                    IF CharAt(t, i) \notin SpaceSet THEN CharAt(t, i)
                    ELSE IF i = 1 \/ CharAt(t, i - 1) \notin SpaceSet THEN " "
                    ELSE ""],
                1, Len(t))
\* t.strip(chars)
StripChars(t, S) ==
    The({IF solid = {} THEN "" ELSE SubSeq(t, MinOf(solid), MaxOf(solid)) :
            solid \in {{i \in 1..Len(t) : CharAt(t, i) \notin S}}})

\* the characters of [A-Za-z0-9& .'-]
CompanyNameCharSet == LowerSet \cup UpperSet \cup DigitSet \cup {"&", " ", ".", "'", "-"}
\* re.search(rf"\b{word}\s+([A-Z][A-Za-z0-9& .'-]{1,64})", text): the group of the
\* leftmost match, "" without one
NameStart(text, i, word) == RunEnd(text, i + Len(word), SpaceSet) + 1
CapitalizedFrom(text, s) ==
    SubSeq(text, s, MinOf({s + 64, RunEnd(text, s + 1, CompanyNameCharSet)}))
CapitalizedAfter(text, word) ==
    The({IF hits = {} THEN ""
         ELSE CapitalizedFrom(text, NameStart(text, MinOf(hits), word)) :
            hits \in {{i \in 1..Len(text) :
                          /\ MatchAt(text, i, word)
                          /\ (i = 1 \/ CharAt(text, i - 1) \notin WordSet)
                          /\ \E s \in {NameStart(text, i, word)} :
                                /\ s > i + Len(word)
                                /\ s + 1 <= Len(text)
                                /\ CharAt(text, s) \in UpperSet
                                /\ CharAt(text, s + 1) \in CompanyNameCharSet}}})
\* the first text of the sequence that is not empty, "" when all are
FirstNonEmpty(s) ==
    IF \A i \in 1..Len(s) : s[i] = "" THEN ""
    ELSE s[MinOf({i \in 1..Len(s) : s[i] # ""})]
CompanyNameAfter(text, word) ==
    StripChars(CollapseSpaces(CapitalizedAfter(text, word)), {" ", ".", ",", "-", "|"})
_extract_company_name_from_text(subject, snippet) ==
    The({Lower(FirstNonEmpty(<<CompanyNameAfter(text, "with"),
                               CompanyNameAfter(text, "at"),
                               CompanyNameAfter(text, "joining")>>)) :
            text \in {subject \o " | " \o snippet}})

\* One match of r"\b([a-z0-9][a-z0-9.-]+\.[a-z]{2,})\b" that starts at i: its end,
\* 0 when there is none.  The greedy middle part gives characters back until a
\* dot is followed by two or more letters that end at a word boundary.
LettersEnd(t, p) == RunEnd(t, p + 1, LowerSet)
DomainDots(t, i, e) ==
    {p \in (i + 2)..e :
        /\ CharAt(t, p) = "."
        /\ \E l \in {LettersEnd(t, p)} :
              /\ l >= p + 2
              /\ (l = Len(t) \/ CharAt(t, l + 1) \notin WordSet)}
DomainTokenEnd(t, i) ==
    IF ~(/\ CharAt(t, i) \in AlnumLowerSet
         /\ (i = 1 \/ CharAt(t, i - 1) \notin WordSet))
    THEN 0
    ELSE The({IF dots = {} THEN 0 ELSE LettersEnd(t, MaxOf(dots)) :
                 dots \in {DomainDots(t, i, RunEnd(t, i + 1, AlnumLowerSet \cup {".", "-"}))}})
\* the first token of re.findall of that pattern, from position k on, that is
\* no free-mail domain; "" when there is none
RECURSIVE FirstCompanyDomainToken(_, _)
TokenOrNext(t, i, e) ==
    IF SubSeq(t, i, e) \notin FREE_DOMAINS THEN SubSeq(t, i, e)
    ELSE FirstCompanyDomainToken(t, e + 1)
FirstCompanyDomainToken(t, k) ==
    The({IF starts = {} THEN ""
         ELSE TokenOrNext(t, MinOf(starts), DomainTokenEnd(t, MinOf(starts))) :
            starts \in {{i \in k..Len(t) : DomainTokenEnd(t, i) > 0}}})

IsAtsSender(domain) == domain \in ATS_HINTS \/ \E h \in ATS_HINTS : Contains(domain, h)

\* <<company domain, source>>
_extract_company_domain_meta(subject, snippet, sender_domain) ==
    The({IF token # "" THEN <<token, "subject_regex">>
         ELSE IF sender_domain # "" /\ sender_domain \notin FREE_DOMAINS
              THEN IF IsAtsSender(sender_domain) THEN <<"", "ats_template">>
                   ELSE <<sender_domain, "sender_domain">>
         ELSE <<"", "unknown">> :
            token \in {FirstCompanyDomainToken(Lower(subject \o " " \o snippet), 1)}})

\* re.search of a literal lead (matched without regard to case) followed by the
\* group ([^stop]+): the group of the leftmost match, as <<found, group>>
GroupStart(low, i, leads) == i + Len(CHOOSE l \in leads : MatchAt(low, i, l))
GroupFrom(text, s, stop) == <<TRUE, SubSeq(text, s, RunEndNot(text, s, stop))>>
GroupAfterLeadIn(text, low, leads, stop) ==
    The({IF hits = {} THEN <<FALSE, "">>
         ELSE GroupFrom(text, GroupStart(low, MinOf(hits), leads), stop) :
            hits \in {{i \in 1..Len(text) :
                          /\ \E l \in leads : MatchAt(low, i, l)
                          /\ \E s \in {GroupStart(low, i, leads)} :
                                s <= Len(text) /\ CharAt(text, s) \notin stop}}})
GroupAfterLead(text, leads, stop) == GroupAfterLeadIn(text, Lower(text), leads, stop)
\* re.search(r"position[:\s-]+([^\n|]+)", text, IGNORECASE): the separators give
\* characters back to the group when nothing else is left for it
PositionSeps == SpaceSet \cup {":", "-"}
PositionStops == {"\n", "|"}
PositionStarts(text, i) ==
    {s \in (i + 9)..(RunEnd(text, i + 8, PositionSeps) + 1) :
        s <= Len(text) /\ CharAt(text, s) \notin PositionStops}
GroupAfterPositionIn(text, low) ==
    The({IF hits = {} THEN <<FALSE, "">>
         ELSE GroupFrom(text, MaxOf(PositionStarts(text, MinOf(hits))), PositionStops) :
            hits \in {{i \in 1..Len(text) :
                          /\ MatchAt(low, i, "position")
                          /\ RunEnd(text, i + 8, PositionSeps) >= i + 8
                          /\ PositionStarts(text, i) # {}}}})
GroupAfterPosition(text) == GroupAfterPositionIn(text, Lower(text))

\* [role, source, confidence]
RoleMetaOf(m, low, domain) ==
    IF m[1]
    THEN [role |-> _norm_text(m[2]), source |-> "parsed",
          confidence |-> IF /\ \/ Contains(low, "role of")
                               \/ Contains(low, "position of")
                               \/ Contains(low, "position:")
                            /\ IsAtsSender(domain)
                         THEN 90 ELSE 60]
    ELSE [role |-> "", source |-> "unknown", confidence |-> 0]
RoleStops == {"\n", ",", "|"}
RoleMatch(text) ==
    The({IF m1[1] THEN m1 ELSE IF m2[1] THEN m2 ELSE IF m3[1] THEN m3 ELSE m4 :
            m1 \in {GroupAfterLead(text, {"for role of ", "for the role of "}, RoleStops)},
            m2 \in {GroupAfterLead(text, {"for position of ", "for the position of "},
                                   RoleStops)},
            m3 \in {GroupAfterPosition(text)},
            m4 \in {GroupAfterLead(text, {"application for ", "application to "},
                                   RoleStops)}})
_extract_role_meta(subject, snippet, domain) ==
    The({RoleMetaOf(RoleMatch(text), Lower(text), domain) :
            text \in {subject \o " | " \o snippet}})

KeyInfo(key, source, with_role, role_meta, domain_meta, company_name) ==
    [application_key |-> key, key_source |-> source,
     company_domain |-> domain_meta[1],
     company_domain_source |-> domain_meta[2],
     company_name |-> company_name,
     role_title |-> IF with_role THEN role_meta.role ELSE "",
     role_title_source |-> IF with_role THEN role_meta.source ELSE "unknown",
     role_title_confidence |-> IF with_role THEN role_meta.confidence ELSE 0]
KeyInfoOf(msg, sender_domain, role_meta, domain_meta, company_name) ==
    IF sender_domain # "" /\ role_meta.role # "" /\ sender_domain \notin FREE_DOMAINS
    THEN KeyInfo(_norm_text(sender_domain \o " " \o role_meta.role), "domain_role", TRUE,
                 role_meta, domain_meta, company_name)
    ELSE IF company_name # "" /\ role_meta.role # ""
    THEN KeyInfo(_norm_text(company_name \o " " \o role_meta.role), "name_role", TRUE,
                 role_meta, domain_meta, company_name)
    ELSE IF msg.thread_id # ""
    THEN KeyInfo(_norm_text(msg.thread_id), "thread_fallback", FALSE,
                 role_meta, domain_meta, company_name)
    ELSE KeyInfo(_norm_text(msg.id), "thread_fallback", FALSE,
                 role_meta, domain_meta, company_name)
\* company_name: off the company domain, else off the text of an ATS template,
\* else off the sender domain
KeyCompanyName(msg, sender_domain, domain_meta) ==
    The({The({IF name2 = "" /\ sender_domain # ""
              THEN _company_name_from_domain(sender_domain) ELSE name2 :
                 name2 \in {IF name1 = "" /\ domain_meta[2] = "ats_template"
                            THEN _extract_company_name_from_text(msg.subject, msg.snippet)
                            ELSE name1}}) :
            name1 \in {IF domain_meta[1] # ""
                       THEN _company_name_from_domain(domain_meta[1]) ELSE ""}})
get_application_key_info(msg) ==
    The({The({KeyInfoOf(msg, sender_domain, role_meta, domain_meta,
                        KeyCompanyName(msg, sender_domain, domain_meta)) :
                 role_meta \in {_extract_role_meta(msg.subject, msg.snippet, sender_domain)},
                 domain_meta \in {_extract_company_domain_meta(msg.subject, msg.snippet,
                                                               sender_domain)}}) :
            sender_domain \in {_extract_domain(msg.from_email)}})

make_application_key(msg) == get_application_key_info(msg).application_key

\* the ignore reason, "" when the message is no such noise
_is_calendar_or_survey_noise(msg) ==
    The({IF \E p \in IGNORE_SUBJECT_PREFIX : StartsWith(subject, p)
         THEN "calendar_response_prefix"
         ELSE IF Contains(subject, "survey") \/ Contains(subject, "feedback")
         THEN "survey_feedback_subject"
         ELSE IF Contains(domain, "survey") \/ Contains(domain, "recruitmentsurvey.")
         THEN "survey_domain"
         ELSE IF domain = "gmail.com"
                 /\ (\/ Contains(subject, "accepted:") \/ Contains(subject, "reminder:")
                     \/ Contains(snippet, "calendar") \/ Contains(snippet, "invitation"))
         THEN "gmail_calendar_noise"
         ELSE "" :
            subject \in {Lower(Strip(msg.subject))},
            snippet \in {Lower(msg.snippet)},
            domain \in {_extract_domain(msg.from_email)}})

\* the four INTERVIEW_STRONG_PATTERNS on a lowercased text
\* schedule (?:your|an?|the)?\s*(?:recruiter\s+screen|phone\s+screen|interview|conversation)
TwoWordsAt(t, k, first, second) ==
    /\ MatchAt(t, k, first)
    /\ RunEnd(t, k + Len(first), SpaceSet) >= k + Len(first)
    /\ MatchAt(t, RunEnd(t, k + Len(first), SpaceSet) + 1, second)
StrongScheduleAnchor(t) ==
    \E i \in 1..Len(t) :
        /\ MatchAt(t, i, "schedule ")
        /\ \E article \in {"", "your", "an", "a", "the"} :
              /\ MatchAt(t, i + 9, article)
              /\ \E k \in {RunEnd(t, i + 9 + Len(article), SpaceSet) + 1} :
                    \/ MatchAt(t, k, "interview")
                    \/ MatchAt(t, k, "conversation")
                    \/ TwoWordsAt(t, k, "recruiter", "screen")
                    \/ TwoWordsAt(t, k, "phone", "screen")
\* (?:interview|conversation).{0,24}(?:has been|is|was)?\s*scheduled
StrongAnchorScheduled(t) ==
    \E i \in 1..Len(t) : \E anchor \in {"interview", "conversation"} :
        /\ MatchAt(t, i, anchor)
        /\ \E n \in 0..24 : \E verb \in {"", "has been", "is", "was"} :
              \E a \in {i + Len(anchor)} :
                 /\ a + n - 1 <= Len(t)
                 /\ \A j \in a..(a + n - 1) : CharAt(t, j) # "\n"
                 /\ MatchAt(t, a + n, verb)
                 /\ MatchAt(t, RunEnd(t, a + n + Len(verb), SpaceSet) + 1, "scheduled")
\* availability(?: request)?.{0,32}(?:interview|conversation)
StrongAvailabilityAnchor(t) ==
    \E i \in 1..Len(t) :
        /\ MatchAt(t, i, "availability")
        /\ \E request \in {"", " request"} : \E n \in 0..32 :
              \E a \in {i + 12 + Len(request)} :
                 /\ MatchAt(t, i + 12, request)
                 /\ a + n - 1 <= Len(t)
                 /\ \A j \in a..(a + n - 1) : CharAt(t, j) # "\n"
                 /\ MatchAt(t, a + n, "interview") \/ MatchAt(t, a + n, "conversation")
\* (?:interview|conversation) confirmation
StrongAnchorConfirmation(t) ==
    Contains(t, "interview confirmation") \/ Contains(t, "conversation confirmation")
MatchesInterviewStrongPattern(t) ==
    \/ StrongScheduleAnchor(t)
    \/ StrongAnchorScheduled(t)
    \/ StrongAvailabilityAnchor(t)
    \/ StrongAnchorConfirmation(t)

\* the interview test, had it asked for an interview anchor alone
InterviewAnchorAlone(msg) ==
    ContainsAny(Lower(msg.subject \o " " \o msg.snippet), INTERVIEW_ANCHOR_PHRASES)
_should_create_interview_event(msg) ==
    \E text \in {Lower(msg.subject \o " " \o msg.snippet)} :
        IF ContainsAny(text, INTERVIEW_NEGATIVE_PHRASES) THEN FALSE
        ELSE IF MatchesInterviewStrongPattern(text) THEN TRUE
        ELSE IF ~ContainsAny(text, INTERVIEW_ANCHOR_PHRASES) THEN FALSE
        ELSE ContainsAny(text, INTERVIEW_SCHEDULING_PHRASES)

\* re.search(pattern, text, flags=re.IGNORECASE) for the patterns of this module,
\* on the lowercased text: four of them are no literal phrases
ReSearch(pattern, low) ==
    IF pattern = "withdraw(n)? (my )?application"
    THEN \E n \in {"", "n"} : \E my \in {"", "my "} :
             Contains(low, "withdraw" \o n \o " " \o my \o "application")
    ELSE IF pattern = "\\boa\\b" THEN ContainsWord(low, "oa")
    ELSE IF pattern = "round\\s*[1-4]"
    THEN \E i \in 1..Len(low) :
             /\ MatchAt(low, i, "round")
             /\ RunEnd(low, i + 5, SpaceSet) + 1 <= Len(low)
             /\ CharAt(low, RunEnd(low, i + 5, SpaceSet) + 1) \in {"1", "2", "3", "4"}
    ELSE IF pattern = "not be taking .* forward"
    THEN \E i \in 1..Len(low) : \E j \in 1..Len(low) :
             /\ MatchAt(low, i, "not be taking ")
             /\ j >= i + 14
             /\ MatchAt(low, j, " forward")
             /\ \A k \in (i + 14)..(j - 1) : CharAt(low, k) # "\n"
    ELSE Contains(low, pattern)

\* the first pattern that matches, "" for None
_match_any(patterns, text) ==
    The({IF hits = {} THEN "" ELSE patterns[MinOf(hits)] :
            hits \in {{i \in 1..Len(patterns) : ReSearch(patterns[i], Lower(text))}}})

\* <<is rejection, rule id>>
_is_rejection_text(text) ==
    The({IF decision_match # ""
         THEN <<TRUE, "rejection:decision_phrase:" \o decision_match>>
         ELSE IF core_match # ""
         THEN <<TRUE, "rejection:core_phrases:" \o core_match>>
         ELSE IF _match_any(REJECTION_CONTEXT_PATTERNS, text) # ""
                 /\ _match_any(REJECTION_VERB_PATTERNS, text) # ""
         THEN <<TRUE, "rejection:context_plus_decision_verb">>
         ELSE <<FALSE, "">> :
            decision_match \in {_match_any(REJECTION_DECISION_PATTERNS, text)},
            core_match \in {_match_any(REJECTION_CORE_PATTERNS, text)}})

\* the evidence of an event; the hash of subject and snippet stands as the text
\* it is taken of
_base_evidence(msg, matched_pattern, application_key) ==
    [message_id |-> msg.id,
     thread_id |-> msg.thread_id,
     from_domain |-> _extract_domain(msg.from_email),
     subject |-> Truncate(msg.subject, 160),
     subject_snippet_hash |-> msg.subject \o "|" \o msg.snippet,
     pattern |-> matched_pattern,
     ats_sender |-> IsAtsSender(_extract_domain(msg.from_email)),
     application_key |-> application_key]

\* what classify_message_with_meta decides from the texts of a message: the
\* event type, stage, confidence and rule id, or the ignore reason
RuleVerdict(type, stage, confidence, rule_id) ==
    [ignored |-> FALSE, ignore_reason |-> "", type |-> type, stage |-> stage,
     confidence |-> confidence, rule_id |-> rule_id]
RuleIgnore(reason, rule_id) ==
    [ignored |-> TRUE, ignore_reason |-> reason, type |-> "", stage |-> "",
     confidence |-> 0, rule_id |-> rule_id]
\* the verdict on an interview message, had gmail.com not been singled out
InterviewVerdictNeverIgnores(domain) ==
    RuleVerdict("interview_invite", "Interview",
                IF domain # "" /\ domain \notin FREE_DOMAINS THEN 90 ELSE 35,
                "interview_invite:schedule_phrases")
\* the verdict on an interview message: none from gmail.com, else an invite
InterviewVerdict(domain) ==
    IF domain = "gmail.com"
    THEN RuleIgnore("gmail_interview_noise", "ignore:gmail_interview_noise")
    ELSE RuleVerdict("interview_invite", "Interview",
                     IF domain # "" /\ domain \notin FREE_DOMAINS THEN 90 ELSE 35,
                     "interview_invite:schedule_phrases")
\* the verdict of the rules that follow the interview rule
LateVerdict(round_match, status_match, app_received_match) ==
    IF round_match # ""
    THEN RuleVerdict("round_update", "Interview", 85,
                     "round_update:round_phrases:" \o round_match)
    ELSE IF status_match # ""
    THEN RuleVerdict("status_update", "Applied", 70,
                     "status_update:core_phrases:" \o status_match)
    ELSE IF app_received_match # ""
    THEN RuleVerdict("application_received", "Applied", 90,
                     "application_received:core_phrases:" \o app_received_match)
    ELSE RuleIgnore("no_match", "ignore:no_match")
\* the rules in front of the interview rule, had rejection been tested before offer
EarlyVerdictRejectionFirst(reason, offer_match, rejection, withdrawn_match, oa_match, lowered) ==
    IF reason # "" THEN <<RuleIgnore(reason, "ignore:" \o reason)>>
    ELSE IF rejection[1] THEN <<RuleVerdict("rejection", "Rejected", 95, rejection[2])>>
    ELSE IF offer_match # ""
    THEN <<RuleVerdict("offer", "Offer", 90, "offer:core_phrases:" \o offer_match)>>
    ELSE IF withdrawn_match # ""
    THEN <<RuleVerdict("withdrawn", "Withdrawn", 90,
                       "withdrawn:core_phrases:" \o withdrawn_match)>>
    ELSE IF oa_match # ""
    THEN <<RuleVerdict("oa", "OA", 90, "oa:core_phrases:" \o oa_match)>>
    ELSE IF Contains(lowered, "reminder:")
            /\ (Contains(lowered, "is on") \/ Contains(lowered, "tomorrow at"))
    THEN <<RuleVerdict("interview_reminder", "Interview", 40,
                       "interview_reminder:timing_language")>>
    ELSE <<>>
\* the verdict of the rules in front of the interview rule, as a sequence of
\* one verdict, empty when none of them applies
EarlyVerdict(reason, offer_match, rejection, withdrawn_match, oa_match, lowered) ==
    IF reason # "" THEN <<RuleIgnore(reason, "ignore:" \o reason)>>
    ELSE IF offer_match # ""
    THEN <<RuleVerdict("offer", "Offer", 90, "offer:core_phrases:" \o offer_match)>>
    ELSE IF rejection[1] THEN <<RuleVerdict("rejection", "Rejected", 95, rejection[2])>>
    ELSE IF withdrawn_match # ""
    THEN <<RuleVerdict("withdrawn", "Withdrawn", 90,
                       "withdrawn:core_phrases:" \o withdrawn_match)>>
    ELSE IF oa_match # ""
    THEN <<RuleVerdict("oa", "OA", 90, "oa:core_phrases:" \o oa_match)>>
    ELSE IF Contains(lowered, "reminder:")
            /\ (Contains(lowered, "is on") \/ Contains(lowered, "tomorrow at"))
    THEN <<RuleVerdict("interview_reminder", "Interview", 40,
                       "interview_reminder:timing_language")>>
    ELSE <<>>
ClassifyText(msg, text) ==
    The({IF Len(early) > 0 THEN early[1]
         ELSE IF _should_create_interview_event(msg)
         THEN InterviewVerdict(_extract_domain(msg.from_email))
         ELSE LateVerdict(_match_any(ROUND_UPDATE_PATTERNS, text),
                          _match_any(STATUS_UPDATE_PATTERNS, text),
                          _match_any(APPLICATION_RECEIVED_PATTERNS, text)) :
            early \in {EarlyVerdict(_is_calendar_or_survey_noise(msg),
                                    _match_any(OFFER_PATTERNS, text),
                                    _is_rejection_text(text),
                                    _match_any(WITHDRAWN_PATTERNS, text),
                                    _match_any(OA_PATTERNS, text),
                                    Lower(text))}})
ClassifyTexts(msg) ==
    ClassifyText(msg, msg.subject \o " " \o msg.snippet \o " " \o msg.from_email)

\* the decision: [events, ignored, ignore_reason, application_key, rule_id]
DecisionOf(msg, verdict, application_key) ==
    [events |-> IF verdict.ignored THEN <<>>
                ELSE <<[type |-> verdict.type, stage |-> verdict.stage,
                        occurred_at |-> msg.date, confidence |-> verdict.confidence,
                        evidence |-> _base_evidence(msg, verdict.rule_id, application_key),
                        application_key |-> application_key]>>,
     ignored |-> verdict.ignored,
     ignore_reason |-> verdict.ignore_reason,
     application_key |-> application_key,
     rule_id |-> verdict.rule_id]
classify_message_with_meta(msg) ==
    DecisionOf(msg, ClassifyTexts(msg), make_application_key(msg))

(***************************************************************************)
(* first_scan.py: the relevance filter in front of the rules classifier.   *)
(***************************************************************************)
ATS_WHITELIST ==
    {"greenhouse.io", "lever.co", "ashbyhq.com", "workday.com", "myworkday.com",
     "icims.com", "icims.eu", "smartrecruiters.com", "jobvite.com",
     "successfactors.com", "teamtailor.com", "recruitee.com", "hackerrank.com",
     "hackerrankforwork.com", "codility.com", "codesignal.com", "hirevue.com"}
STRONG_JOB_SIGNALS ==
    {"thanks for applying", "application received", "your application for",
     "interview", "availability", "schedule", "next steps", "offer",
     "not moving forward", "regret to inform", "assessment", "coding challenge"}
INTERVIEW_SCHEDULE_SIGNALS ==
    {"interview", "schedule", "availability", "phone screen", "next steps"}
CALENDAR_VENDORS == {"calendly.com", "zoom.us", "teams.microsoft.com", "microsoft.com"}

\* re.search(r"@([A-Za-z0-9_.-]+)", from_email), lowercased; "" without a match
extract_domain(from_email) ==
    The({IF ats = {} THEN ""
         ELSE Lower(SubSeq(from_email, MinOf(ats) + 1,
                           RunEnd(from_email, MinOf(ats) + 1, DomainCharSet))) :
            ats \in {{i \in 1..(Len(from_email) - 1) :
                         /\ CharAt(from_email, i) = "@"
                         /\ CharAt(from_email, i + 1) \in DomainCharSet}}})

_has_any(text, needles) == \E n \in needles : Contains(Lower(text), n)

\* the FirstScanDecision: [keep, reason, from_domain]
FirstScanDecision(keep, reason, from_domain) ==
    [keep |-> keep, reason |-> reason, from_domain |-> from_domain]
\* the decision, had the ATS whitelist been tested in front of the subject rules
RelevanceOfAtsFirst(subject_l, domain, has_strong_keyword) ==
    IF domain \in ATS_WHITELIST
    THEN FirstScanDecision(TRUE, "ats_whitelist_domain", domain)
    ELSE IF \E p \in {"accepted:", "declined:", "tentative:"} : StartsWith(subject_l, p)
    THEN FirstScanDecision(FALSE, "calendar_response_subject_prefix", domain)
    ELSE IF Contains(subject_l, "newsletter") \/ Contains(subject_l, "digest")
    THEN FirstScanDecision(FALSE, "newsletter_digest_subject", domain)
    ELSE IF domain \in {"linkedin.com", "bizreach.co.jp"} /\ ~has_strong_keyword
    THEN FirstScanDecision(FALSE, "linkedin_bizreach_without_job_signal", domain)
    ELSE IF \E v \in CALENDAR_VENDORS : EndsWith(domain, v)
    THEN IF _has_any(subject_l, INTERVIEW_SCHEDULE_SIGNALS)
         THEN FirstScanDecision(TRUE, "calendar_vendor_with_interview_signal", domain)
         ELSE FirstScanDecision(FALSE, "calendar_vendor_without_interview_signal", domain)
    ELSE IF has_strong_keyword
    THEN FirstScanDecision(TRUE, "strong_subject_signal", domain)
    ELSE FirstScanDecision(FALSE, "no_first_scan_signal", domain)
RelevanceOf(subject_l, domain, has_strong_keyword) ==
    IF \E p \in {"accepted:", "declined:", "tentative:"} : StartsWith(subject_l, p)
    THEN FirstScanDecision(FALSE, "calendar_response_subject_prefix", domain)
    ELSE IF Contains(subject_l, "newsletter") \/ Contains(subject_l, "digest")
    THEN FirstScanDecision(FALSE, "newsletter_digest_subject", domain)
    ELSE IF domain \in {"linkedin.com", "bizreach.co.jp"} /\ ~has_strong_keyword
    THEN FirstScanDecision(FALSE, "linkedin_bizreach_without_job_signal", domain)
    ELSE IF domain \in ATS_WHITELIST
    THEN FirstScanDecision(TRUE, "ats_whitelist_domain", domain)
    ELSE IF \E v \in CALENDAR_VENDORS : EndsWith(domain, v)
    THEN IF _has_any(subject_l, INTERVIEW_SCHEDULE_SIGNALS)
         THEN FirstScanDecision(TRUE, "calendar_vendor_with_interview_signal", domain)
         ELSE FirstScanDecision(FALSE, "calendar_vendor_without_interview_signal", domain)
    ELSE IF has_strong_keyword
    THEN FirstScanDecision(TRUE, "strong_subject_signal", domain)
    ELSE FirstScanDecision(FALSE, "no_first_scan_signal", domain)
is_relevant_message(msg) ==
    The({RelevanceOf(subject_l, extract_domain(msg.from_email),
                     _has_any(subject_l, STRONG_JOB_SIGNALS)) :
            subject_l \in {Lower(Strip(msg.subject))}})

(***************************************************************************)
(* Sorting: sorted(s, key=...) and list.sort are stable.                   *)
(***************************************************************************)
\* the sequence s in the order of Less, equal elements in their order in s
SortPosition(s, Less(_, _), i) ==
    Cardinality({j \in 1..Len(s) : Less(s[j], s[i]) \/ (~Less(s[i], s[j]) /\ j < i)}) + 1
StableSort(s, Less(_, _)) ==
    The({[k \in 1..Len(s) |-> s[CHOOSE i \in 1..Len(s) : pos[i] = k]] :
            pos \in {[i \in 1..Len(s) |-> SortPosition(s, Less, i)]}})
\* [x for x in s if Keep(x)]
Filter(s, Keep(_)) ==
    The({[k \in 1..Cardinality(kept) |-> s[KthOf(kept, k)]] :
            kept \in {{i \in 1..Len(s) : Keep(s[i])}}})
\* sorted(S) of a set of strings
SortedStrings(S) ==
    [k \in 1..Cardinality(S) |->
        CHOOSE x \in S : Cardinality({y \in S : StrLess(y, x)}) = k - 1]
\* sep.join(w)
JoinWith(w, sep) ==
    ConcatRange([i \in 1..(2 * Len(w) - 1) |-> IF i % 2 = 1 THEN w[(i + 1) \div 2] ELSE sep],
                1, 2 * Len(w) - 1)
ByDate(a, b) == a.date < b.date
ByOccurredAt(a, b) == a.occurred_at < b.occurred_at

(***************************************************************************)
(* application_summary.py: the application table of the rule path and the  *)
(* metrics read off it.                                                    *)
(*                                                                         *)
(* A SummaryMessageRow is a record of its fields.  The SHA-1 digest of     *)
(* _fallback_app_id stands as the text it is taken of.                     *)
(***************************************************************************)
ATS_DOMAINS ==
    {"myworkday.com", "workday.com", "greenhouse.io", "lever.co", "icims.com",
     "icims.eu", "ashbyhq.com"}
_is_ats_domain(domain) == domain \in ATS_DOMAINS \/ \E d \in ATS_DOMAINS : EndsWith(domain, d)

\* _normalize_text of application_summary.py (the same two substitutions as the
\* one of ai_classifier.py)
SummaryNormalizeText(s) == _normalize_text(s)

\* re.search(rf"\b{lead}([A-Z][A-Za-z0-9& .'-]{1,64})", text) for a lead that
\* starts with a letter: the group of the leftmost match, "" without one
CapitalizedAfterLead(text, lead) ==
    The({IF hits = {} THEN "" ELSE CapitalizedFrom(text, MinOf(hits) + Len(lead)) :
            hits \in {{i \in 1..Len(text) :
                          /\ MatchAt(text, i, lead)
                          /\ (i = 1 \/ CharAt(text, i - 1) \notin WordSet)
                          /\ i + Len(lead) + 1 <= Len(text)
                          /\ CharAt(text, i + Len(lead)) \in UpperSet
                          /\ CharAt(text, i + Len(lead) + 1) \in CompanyNameCharSet}}})
_extract_company_name_from_subject(subject) ==
    Lower(StripChars(CollapseSpaces(
              FirstNonEmpty(<<CapitalizedAfterLead(subject, "role at "),
                              CapitalizedAfterLead(subject, "position at "),
                              CapitalizedAfterLead(subject, "at ")>>)),
          {" ", ".", ",", "-", "|"}))

_fallback_app_id(row) ==
    IF row.role_title_confidence >= 60 /\ row.extracted_company_domain # ""
       /\ row.role_title # ""
    THEN "key:" \o SummaryNormalizeText(row.extracted_company_domain) \o "|"
                \o SummaryNormalizeText(row.role_title)
    ELSE "hash:" \o row.from_domain \o "|" \o Lower(Truncate(row.subject, 80)) \o "|"
                 \o row.application_key

_application_id(row) ==
    IF row.thread_id # "" THEN "thread:" \o row.thread_id ELSE _fallback_app_id(row)

\* the status an event type stands for when it is the only one
StatusOfType(type) ==
    CASE type = "withdrawn" -> "Withdrawn"
      [] type = "rejection" -> "Rejected"
      [] type = "offer" -> "Offer"
      [] type \in {"interview_invite", "round_update"} -> "Interviewing"
      [] type = "oa" -> "OA"
      [] type = "status_update" -> "In Review"
      [] OTHER -> "Applied"
\* the status, had an offer outranked a rejection
StatusOfferOverRejection(event_list) ==
    The({IF "withdrawn" \in event_types THEN "Withdrawn"
         ELSE IF "offer" \in event_types THEN "Offer"
         ELSE IF "rejection" \in event_types THEN "Rejected"
         ELSE IF "interview_invite" \in event_types \/ "round_update" \in event_types
         THEN "Interviewing"
         ELSE IF "oa" \in event_types THEN "OA"
         ELSE IF "status_update" \in event_types THEN "In Review"
         ELSE "Applied" :
            event_types \in {{event_list[i].type : i \in 1..Len(event_list)}}})
\* the status of the latest event alone
StatusFromLatestEvent(event_list) ==
    IF Len(event_list) = 0 THEN "Applied"
    ELSE StatusOfType(event_list[Len(event_list)].type)

_status_from_events(event_list) ==
    The({IF "withdrawn" \in event_types THEN "Withdrawn"
         ELSE IF "rejection" \in event_types THEN "Rejected"
         ELSE IF "offer" \in event_types THEN "Offer"
         ELSE IF "interview_invite" \in event_types \/ "round_update" \in event_types
         THEN "Interviewing"
         ELSE IF "oa" \in event_types THEN "OA"
         ELSE IF "status_update" \in event_types THEN "In Review"
         ELSE "Applied" :
            event_types \in {{event_list[i].type : i \in 1..Len(event_list)}}})

\* (rank of the event type, confidence, date)
_evidence_rank(ev) ==
    <<CASE ev.type = "withdrawn" -> 7
        [] ev.type = "rejection" -> 6
        [] ev.type = "offer" -> 5
        [] ev.type \in {"interview_invite", "round_update"} -> 4
        [] ev.type = "oa" -> 3
        [] ev.type = "status_update" -> 2
        [] ev.type = "application_received" -> 1
        [] OTHER -> 0,
      ev.confidence, ev.occurred_at>>
\* the order of tuples of three numbers
TripleLess(x, y) ==
    \/ x[1] < y[1]
    \/ x[1] = y[1] /\ x[2] < y[2]
    \/ x[1] = y[1] /\ x[2] = y[2] /\ x[3] < y[3]
ByEvidenceRankDown(a, b) == TripleLess(_evidence_rank(b), _evidence_rank(a))
ByRoleConfidenceDown(a, b) ==
    \/ b.role_title_confidence < a.role_title_confidence
    \/ b.role_title_confidence = a.role_title_confidence /\ b.date < a.date

\* the application an event is filed under: that of its message, else its thread,
\* else its key
EventAppId(ev, messages) ==
    The({IF hits # {} THEN _application_id(messages[MaxOf(hits)])
         ELSE IF thread_id # "" THEN "thread:" \o thread_id
         ELSE "key:" \o SummaryNormalizeText(ev.application_key) :
            hits \in {{i \in 1..Len(messages) :
                          messages[i].message_id = ev.evidence.message_id}},
            thread_id \in {Strip(ev.evidence.thread_id)}})

\* Counter(types): type -> number of occurrences, for the types that occur
CounterOf(types) == [t \in Range(types) |-> CountIn(types, t)]

\* one row of the application table
NonAts(d) == d # "" /\ ~_is_ats_domain(d)
NonEmpty(t) == t # ""
HasRole(m) == m.role_title # ""
SummaryCompanyDomain(msgs) ==
    The({IF Len(non_ats_domains) > 0 THEN MostCommon(non_ats_domains)
         ELSE IF Len(extracted_domains) > 0 THEN MostCommon(extracted_domains)
         ELSE IF Len(msgs) > 0 THEN msgs[1].from_domain ELSE "" :
            non_ats_domains \in
                {Filter([i \in 1..Len(msgs) |-> msgs[i].from_domain], NonAts)},
            extracted_domains \in
                {Filter([i \in 1..Len(msgs) |-> msgs[i].extracted_company_domain],
                        NonEmpty)}})
\* company_domain.split(".")[-2] when the domain has two labels or more
DomainLabel(company_domain) ==
    The({IF Len(parts) >= 2 THEN parts[Len(parts) - 1] ELSE company_domain :
            parts \in {SplitOn(company_domain, ".")}})
SummaryCompanyName(msgs, company_domain) ==
    The({The({IF name2 # "" \/ company_domain = "" THEN name2
              ELSE DomainLabel(company_domain) :
                 name2 \in {IF name1 # "" THEN name1
                            ELSE MostCommonOrEmpty(
                                     Filter([i \in 1..Len(msgs) |->
                                                msgs[i].extracted_company_name],
                                            NonEmpty))}}) :
            name1 \in {IF Len(msgs) > 0 /\ _is_ats_domain(msgs[1].from_domain)
                       THEN MostCommonOrEmpty(
                                Filter([i \in 1..Len(msgs) |->
                                           _extract_company_name_from_subject(
                                               msgs[i].subject)],
                                       NonEmpty))
                       ELSE ""}})
\* sorted(evs, key=_evidence_rank, reverse=True)[0], <<>> when there is no event
BestEvidence(evs) ==
    IF Len(evs) > 0 THEN StableSort(evs, ByEvidenceRankDown)[1] ELSE <<>>
SummaryRowOf(app_id, msgs, evs, company_domain, role_candidates, evidence) ==
    [application_id |-> app_id,
     thread_id |-> IF Len(msgs) > 0 THEN msgs[1].thread_id ELSE "",
     company_name |-> SummaryCompanyName(msgs, company_domain),
     company_domain |-> company_domain,
     role_title |-> IF Len(role_candidates) > 0 THEN role_candidates[1].role_title ELSE "",
     current_status |-> _status_from_events(evs),
     last_event_date |-> IF Len(evs) > 0 THEN evs[Len(evs)].occurred_at
                         ELSE msgs[Len(msgs)].date,
     evidence_from_domain |-> IF Len(evs) > 0 THEN evidence.evidence.from_domain
                              ELSE msgs[Len(msgs)].from_domain,
     evidence_subject |-> IF Len(evs) > 0 THEN Truncate(evidence.evidence.subject, 160)
                          ELSE Truncate(msgs[Len(msgs)].subject, 160),
     evidence_event_type |-> IF Len(evs) > 0 THEN evidence.type ELSE "",
     evidence_stage |-> IF Len(evs) > 0 THEN evidence.stage ELSE "",
     evidence_confidence |-> IF Len(evs) > 0 THEN FormatHundredths(evidence.confidence)
                             ELSE "",
     message_count |-> StrOfNat(Len(msgs)),
     event_counts_json |-> CounterOf([i \in 1..Len(evs) |-> evs[i].type])]
SummaryRow(app_id, msgs, evs) ==
    The({SummaryRowOf(app_id, msgs, evs, company_domain, role_candidates, evidence) :
            company_domain \in {SummaryCompanyDomain(msgs)},
            role_candidates \in {StableSort(Filter(msgs, HasRole), ByRoleConfidenceDown)},
            evidence \in {BestEvidence(evs)}})

BySummaryKey(a, b) ==
    \/ StrLess(a.company_domain, b.company_domain)
    \/ /\ a.company_domain = b.company_domain
       /\ \/ StrLess(a.role_title, b.role_title)
          \/ a.role_title = b.role_title /\ a.last_event_date < b.last_event_date

\* the messages, and the events, filed under each application id
MessagesOf(messages, msg_app, app_id) ==
    StableSort(AtPositions(messages, {i \in 1..Len(messages) : msg_app[i] = app_id}),
               ByDate)
EventsOf(event_list, ev_app, app_id) ==
    StableSort(AtPositions(event_list, {i \in 1..Len(event_list) : ev_app[i] = app_id}),
               ByOccurredAt)
SummaryRowsUnder(messages, event_list, msg_app, ev_app, app_ids) ==
    StableSort([k \in 1..Len(app_ids) |->
                   The({SummaryRow(app_ids[k], msgs, evs) :
                           msgs \in {MessagesOf(messages, msg_app, app_ids[k])},
                           evs \in {EventsOf(event_list, ev_app, app_ids[k])}})],
               BySummaryKey)
build_application_summary_rows(messages, event_list) ==
    The({SummaryRowsUnder(messages, event_list, msg_app, ev_app,
                          SortedStrings(Range(msg_app) \cup Range(ev_app))) :
            msg_app \in {[i \in 1..Len(messages) |-> _application_id(messages[i])]},
            ev_app \in {[i \in 1..Len(event_list) |->
                            EventAppId(event_list[i], messages)]}})

\* round(num / den * 100.0, 2) in hundredths of a percent, 0 when den is 0
_rate(num, den) ==
    IF den = 0 THEN 0
    ELSE The({IF 2 * rest > den \/ (2 * rest = den /\ whole % 2 = 1)
              THEN whole + 1 ELSE whole :
                 whole \in {(num * 10000) \div den}, rest \in {(num * 10000) % den}})
compute_rates(metrics) ==
    [reply_rate_pct |-> _rate(metrics.replies, metrics.applications),
     oa_rate_from_replies_pct |-> _rate(metrics.oa, metrics.replies),
     interview_rate_from_oa_pct |-> _rate(metrics.interviews, metrics.oa),
     offer_rate_from_interviews_pct |-> _rate(metrics.offers, metrics.interviews),
     rejection_rate_from_interviews_pct |-> _rate(metrics.rejected, metrics.interviews),
     application_to_offer_pct |-> _rate(metrics.offers, metrics.applications)]

\* the number of elements of a sequence that satisfy Test
CountOf(s, Test(_)) == Cardinality({i \in 1..Len(s) : Test(s[i])})
\* int(payload.get(event_type, 0)) of a row's event counts
_event_count(r, event_type) ==
    IF event_type \in DOMAIN r.event_counts_json THEN r.event_counts_json[event_type] ELSE 0

\* [metrics, rates]
HasOaEvent(r) == _event_count(r, "oa") > 0
HasInterviewEvent(r) ==
    _event_count(r, "interview_invite") + _event_count(r, "round_update") > 0
Replied(r) == r.current_status # "Applied"
NoReply(r) == r.current_status = "Applied"
ReachedOa(r) ==
    /\ r.current_status \in {"OA", "Interviewing", "Offer", "Rejected", "Withdrawn"}
    /\ HasOaEvent(r)
ReachedInterview(r) ==
    /\ r.current_status \in {"Interviewing", "Offer", "Rejected", "Withdrawn"}
    /\ HasInterviewEvent(r)
IsOffer(r) == r.current_status = "Offer"
IsRejected(r) == r.current_status = "Rejected"
IsWithdrawn(r) == r.current_status = "Withdrawn"
compute_metrics_from_application_summary(rows) ==
    The({[metrics |-> metrics, rates |-> compute_rates(metrics)] :
            metrics \in {[applications |-> Len(rows),
                          replies |-> CountOf(rows, Replied),
                          no_replies |-> CountOf(rows, NoReply),
                          oa |-> CountOf(rows, ReachedOa),
                          withdrawn |-> CountOf(rows, IsWithdrawn),
                          interviews |-> CountOf(rows, ReachedInterview),
                          offers |-> CountOf(rows, IsOffer),
                          rejected |-> CountOf(rows, IsRejected)]}})

(***************************************************************************)
(* metrics.py: the audit table of the rule path, one row per application   *)
(* key, and the funnel read off it.                                        *)
(***************************************************************************)
STAGE_RANK(stage) ==
    CASE stage = "Applied" -> 1
      [] stage = "OA" -> 2
      [] stage = "Interview" -> 3
      [] stage = "Rejected" -> 3
      [] stage = "Offer" -> 4
      [] OTHER -> 0
RESPONSE_EVENT_TYPES ==
    {"interview_invite", "oa", "rejection", "offer", "round_update", "withdrawn"}
EVIDENCE_STAGE_PRIORITY(stage) ==
    CASE stage = "Offer" -> 5
      [] stage = "Rejected" -> 4
      [] stage = "Interview" -> 3
      [] stage = "OA" -> 2
      [] stage = "Applied" -> 1
      [] stage = "Withdrawn" -> 1
      [] OTHER -> 0

_max_stage(curr, new) == IF STAGE_RANK(new) > STAGE_RANK(curr) THEN new ELSE curr

\* _company_name_from_domain of metrics.py
AuditCompanyName(domain) ==
    IF domain = "" THEN ""
    ELSE The({IF Len(parts) < 2 THEN parts[1] ELSE parts[Len(parts) - 1] :
                 parts \in {SplitOn(domain, ".")}})

_extract_role_from_key(app_key, company_domain) ==
    IF company_domain # "" /\ StartsWith(Strip(app_key), company_domain)
    THEN Strip(From(Strip(app_key), Len(company_domain) + 1))
    ELSE ""

\* the aggregates, in the order of the first event of each key
RECURSIVE MaxStageOf(_, _)
MaxStageOf(curr, evs) ==
    IF Len(evs) = 0 THEN curr ELSE MaxStageOf(_max_stage(curr, Head(evs).stage), Tail(evs))
HasDomain(e) == e.evidence.from_domain # ""
\* the first from_domain of the events that is not empty, "" when all are
FirstDomain(domains) == IF Len(domains) > 0 THEN domains[1].evidence.from_domain ELSE ""
ApplicationAggregate(key, evs, company_domain) ==
    [key |-> key,
     first_seen |-> MinOf({evs[i].occurred_at : i \in 1..Len(evs)}),
     last_seen |-> MaxOf({evs[i].occurred_at : i \in 1..Len(evs)}),
     events |-> evs,
     event_types |-> {evs[i].type : i \in 1..Len(evs)},
     max_stage_reached |-> MaxStageOf("Applied", evs),
     has_rejection |-> \E i \in 1..Len(evs) :
                           evs[i].type = "rejection" \/ evs[i].stage = "Rejected",
     has_withdrawn |-> \E i \in 1..Len(evs) :
                           evs[i].type = "withdrawn" \/ evs[i].stage = "Withdrawn",
     company_domain |-> company_domain,
     role_title |-> _extract_role_from_key(key, company_domain)]
AggregateOf(sorted, key) ==
    The({ApplicationAggregate(key, evs, FirstDomain(Filter(evs, HasDomain))) :
            evs \in {AtPositions(sorted, {i \in 1..Len(sorted) :
                                             sorted[i].application_key = key})}})
\* aggregates that count emails: one application per event
AggregatesPerEvent(event_list) ==
    The({[k \in 1..Len(sorted) |->
             ApplicationAggregate(sorted[k].application_key, <<sorted[k]>>,
                                  FirstDomain(Filter(<<sorted[k]>>, HasDomain)))] :
            sorted \in {StableSort(event_list, ByOccurredAt)}})
build_application_aggregates(event_list) ==
    The({The({[k \in 1..Len(keys) |-> AggregateOf(sorted, keys[k])] :
                 keys \in {SeqDistinct([i \in 1..Len(sorted) |->
                                           sorted[i].application_key])}}) :
            sorted \in {StableSort(event_list, ByOccurredAt)}})

ByEvidencePriorityDown(a, b) ==
    TripleLess(<<EVIDENCE_STAGE_PRIORITY(b.stage), b.confidence, b.occurred_at>>,
               <<EVIDENCE_STAGE_PRIORITY(a.stage), a.confidence, a.occurred_at>>)
_select_evidence(event_list) ==
    The({SubSeq(ranked, 1, IF Len(ranked) > 3 THEN 3 ELSE Len(ranked)) :
            ranked \in {StableSort(event_list, ByEvidencePriorityDown)}})

\* one row of the audit table; the columns evidence_1_*, evidence_2_* and
\* evidence_3_* are the records of the sequence evidence
EvidenceColumns(ev) ==
    [date |-> ev.occurred_at,
     domain |-> ev.evidence.from_domain,
     subject |-> ev.evidence.subject,
     event_type |-> ev.type,
     stage |-> ev.stage,
     confidence |-> FormatHundredths(ev.confidence),
     gmail_message_id |-> ev.evidence.message_id,
     thread_id |-> ev.evidence.thread_id,
     snippet_hash |-> ev.evidence.subject_snippet_hash]
AuditRowOf(app, responses, counted_replied, counted_oa, counted_interviews,
           counted_offers, counted_rejected, counted_withdrawn, selected) ==
    [application_key |-> app.key,
     company_domain |-> app.company_domain,
     company_name |-> AuditCompanyName(app.company_domain),
     role_title |-> app.role_title,
     first_seen |-> app.first_seen,
     last_seen |-> app.last_seen,
     counted_applied |-> StrOfNat(1),
     counted_replied |-> StrOfNat(counted_replied),
     counted_no_replies |-> StrOfNat(IF counted_replied = 0 THEN 1 ELSE 0),
     counted_oa |-> StrOfNat(counted_oa),
     counted_interviews |-> StrOfNat(counted_interviews),
     counted_offers |-> StrOfNat(counted_offers),
     counted_rejected |-> StrOfNat(counted_rejected),
     counted_withdrawn |-> StrOfNat(counted_withdrawn),
     max_stage_reached |-> app.max_stage_reached,
     reply_reason |-> IF counted_replied = 1
                      THEN "response_event:" \o JoinWith(SortedStrings(responses), ",")
                      ELSE "no_response_event",
     oa_reason |-> IF counted_oa = 1 THEN "has_oa_event" ELSE "",
     interview_reason |-> IF counted_interviews = 1 THEN "has_interview_event" ELSE "",
     offer_reason |-> IF counted_offers = 1 THEN "has_offer_event" ELSE "",
     rejection_reason |-> IF counted_rejected = 1 THEN "has_rejection_event" ELSE "",
     withdrawn_reason |-> IF counted_withdrawn = 1 THEN "has_withdrawn_event" ELSE "",
     evidence |-> [k \in 1..Len(selected) |-> EvidenceColumns(selected[k])]]
AuditRow(app) ==
    The({AuditRowOf(app, responses,
                    IF responses # {} THEN 1 ELSE 0,
                    IF "oa" \in app.event_types THEN 1 ELSE 0,
                    IF {"interview_invite", "round_update"} \cap app.event_types # {}
                    THEN 1 ELSE 0,
                    IF "offer" \in app.event_types THEN 1 ELSE 0,
                    IF app.max_stage_reached = "Rejected" \/ app.has_rejection
                    THEN 1 ELSE 0,
                    IF app.has_withdrawn THEN 1 ELSE 0,
                    selected) :
            responses \in {app.event_types \cap RESPONSE_EVENT_TYPES},
            selected \in {_select_evidence(app.events)}})

ByAuditKey(a, b) ==
    \/ StrLess(a.company_domain, b.company_domain)
    \/ /\ a.company_domain = b.company_domain
       /\ \/ StrLess(a.role_title, b.role_title)
          \/ a.role_title = b.role_title /\ a.first_seen < b.first_seen

build_audit_rows(event_list) ==
    The({StableSort([k \in 1..Len(apps) |-> AuditRow(apps[k])], ByAuditKey) :
            apps \in {build_application_aggregates(event_list)}})

\* the sum of an integer column
RECURSIVE SumColumn(_, _)
SumColumn(rows, col) ==
    IF Len(rows) = 0 THEN 0 ELSE IntOfStr(Head(rows)[col]) + SumColumn(Tail(rows), col)
compute_metrics_from_audit_rows(rows) ==
    [applications |-> SumColumn(rows, "counted_applied"),
     replies |-> SumColumn(rows, "counted_replied"),
     no_replies |-> SumColumn(rows, "counted_no_replies"),
     oa |-> SumColumn(rows, "counted_oa"),
     withdrawn |-> SumColumn(rows, "counted_withdrawn"),
     interviews |-> SumColumn(rows, "counted_interviews"),
     offers |-> SumColumn(rows, "counted_offers"),
     rejected |-> SumColumn(rows, "counted_rejected")]

\* [metrics, rates, warnings, rows]
\* a row whose reply and no-reply counts do not add up to its applied count
BadCounts(r) ==
    IntOfStr(r.counted_replied) + IntOfStr(r.counted_no_replies)
        # IntOfStr(r.counted_applied)
FunnelOf(rows, metrics, bad) ==
    [metrics |-> metrics,
     rates |-> compute_rates(metrics),
     warnings |-> IF Len(bad) > 0
                  THEN <<"reply/no_reply consistency issue for " \o StrOfNat(Len(bad))
                           \o " applications">>
                  ELSE <<>>,
     rows |-> rows]
compute_funnel(event_list) ==
    The({The({FunnelOf(rows, metrics, bad) :
                 metrics \in {compute_metrics_from_audit_rows(rows)},
                 bad \in {Filter(rows, BadCounts)}}) :
            rows \in {build_audit_rows(event_list)}})

(***************************************************************************)
(* pipeline.py: run().                                                     *)
(*                                                                         *)
(* The call is modelled with ai_classify off or on and with any of its     *)
(* flags dry_run, audit, report, key_debug, domain_debug, reconcile and    *)
(* first_scan_report set; options holds the names of the flags that are    *)
(* set, and is empty in the runs with the default options.  The lists      *)
(* decision_rows, key_debug_rows and domain_debug_rows and the counter     *)
(* message_event_counter, which only the debug reports read, are left out. *)
(* app_has_interview is the set of the keys the dict maps to True (it maps *)
(* no key to anything else).  In a DecisionRow None is written "" and a    *)
(* confidence of None -1.                                                  *)
(***************************************************************************)
\* The messages of the runs of the rule path, without id and date: an
\* application, an interview invitation, reminders inside and outside a thread,
\* a rejection, an offer, a withdrawal, an assessment, and a mail that is none of
\* the tracker's business.
RuleMessageTemplates ==
    {Message("jobs@acme.com", "Thanks for applying", "Application received", "t1", ""),
     Message("jobs@acme.com", "Availability Request for Hiring Manager Interview",
             "Please share availability", "t1", ""),
     Message("jobs@acme.com", "Reminder: Your interview for Data Analyst is on Thursday",
             "", "t1", ""),
     Message("jobs@acme.com", "Reminder: Your interview for Data Analyst is on Thursday",
             "", "", ""),
     Message("jobs@acme.com", "Your application for Data Analyst",
             "Unfortunately we are not moving forward", "t1", ""),
     Message("jobs@acme.com", "Offer letter for the role", "", "t1", ""),
     Message("no-reply@greenhouse.io", "Your application has been withdrawn", "", "t1", ""),
     Message("jobs@acme.com", "Online assessment invitation", "", "t1", ""),
     Message("news@shop.com", "Your weekly deals", "", "t4", "")}
\* The messages both classifiers are probed with: subjects, previews and senders
\* of the repository's tests
GateMessages ==
    {Message(from_email, subject, snippet, "t1", "") :
        from_email \in {"recruiting@company.com", "candidate@gmail.com", "me@outlook.com"},
        subject \in {"Availability Request for Hiring Manager Interview",
                     "Invitation: intro call @ Tue 10:00",
                     "Invitation: Interview with Acme @ Tue 10:00",
                     "Interview confirmation",
                     "[CloudVendor] Your invoice for team Alpha is now available",
                     "Thanks for applying",
                     "Schedule your  recruiter   screen"},
        snippet \in {"", "Please share availability", "Your interview has been scheduled",
                     "View your invoice and receipt in billing."}}

\* what the run reads off the texts of one message: none of it depends on the date
MsgTexts(msg) == [k \in DOMAIN msg \ {"date"} |-> msg[k]]
MessageFactsOf(msg) ==
    [key_info |-> get_application_key_info(msg),
     verdict |-> ClassifyTexts(msg),
     scan |-> is_relevant_message(msg)]
\* the facts of the messages above, computed once
KnownMessages ==
    {[id |-> MessageId(k)] @@ t : k \in 1..MaxMsgs, t \in RuleMessageTemplates}
    \cup {[id |-> MessageId(k)] @@ t : k \in 1..MaxLlmMsgs, t \in LlmMessageTemplates}
KnownMessageFacts == [m \in KnownMessages |-> MessageFactsOf(m)]
MessageFacts(msg) ==
    The({IF t \in DOMAIN known THEN known[t] ELSE MessageFactsOf(t) :
            t \in {MsgTexts(msg)}, known \in {KnownMessageFacts}})

\* (kept, rows) of apply_first_scan_filter
FirstScanKept(msg) == MessageFacts(msg).scan.keep
FirstScanRow(msg, decision) ==
    [gmail_message_id |-> msg.id,
     date |-> msg.date,
     from_domain |-> decision.from_domain,
     subject |-> Truncate(msg.subject, 160),
     kept_or_dropped |-> IF decision.keep THEN "kept" ELSE "dropped",
     drop_reason |-> IF decision.keep THEN "" ELSE decision.reason]
apply_first_scan_filter(messages) ==
    [kept |-> Filter(messages, FirstScanKept),
     rows |-> [i \in 1..Len(messages) |->
                  FirstScanRow(messages[i], MessageFacts(messages[i]).scan)]]

\* the SummaryMessageRow of a message
SummaryMessageRow(msg, key_info) ==
    [message_id |-> msg.id,
     thread_id |-> msg.thread_id,
     date |-> msg.date,
     from_domain |-> _extract_domain(msg.from_email),
     subject |-> Truncate(msg.subject, 160),
     extracted_company_name |-> key_info.company_name,
     extracted_company_domain |-> key_info.company_domain,
     role_title |-> key_info.role_title,
     role_title_confidence |-> key_info.role_title_confidence,
     application_key |-> key_info.application_key]

\* the DecisionRow of a message none of whose events was emitted
IgnoredRow(msg, application_key, ignore_reason, rule_id) ==
    [message_id |-> msg.id, date |-> msg.date,
     from_domain |-> _extract_domain(msg.from_email),
     subject |-> Truncate(msg.subject, 160), thread_id |-> msg.thread_id,
     application_key |-> application_key, ignored |-> TRUE,
     ignore_reason |-> ignore_reason, event_type |-> "", stage |-> "",
     confidence |-> 0 - 1, rule_id |-> rule_id]
\* the DecisionRow of a message by its first emitted event
EmittedRow(msg, top, rule_id) ==
    [message_id |-> top.evidence.message_id, date |-> top.occurred_at,
     from_domain |-> top.evidence.from_domain,
     subject |-> Truncate(top.evidence.subject, 160),
     thread_id |-> IF top.evidence.thread_id # "" THEN top.evidence.thread_id
                   ELSE msg.thread_id,
     application_key |-> top.application_key, ignored |-> FALSE,
     ignore_reason |-> "", event_type |-> top.type, stage |-> top.stage,
     confidence |-> top.confidence,
     rule_id |-> IF rule_id # "" THEN rule_id ELSE top.evidence.pattern]

\* a reminder counts for every application
ReminderAlwaysCounts(has_interview, application_key) == TRUE

\* app_has_interview.get(event.application_key, False)
PriorInterview(has_interview, application_key) == application_key \in has_interview

\* the loop over decision.events: st is [events, app_has_interview, report_rows,
\* emitted] before the events that are left, the result the same after them
RECURSIVE EmitEvents(_, _, _, _)
\* the event a reminder with a prior interview is emitted as
Promoted(event) ==
    IF event.type = "interview_reminder"
    THEN [type |-> "round_update", stage |-> "Interview",
          occurred_at |-> event.occurred_at,
          confidence |-> event.confidence,
          evidence |-> event.evidence,
          application_key |-> event.application_key]
    ELSE event
Emit(st, emitted_event) ==
    [st EXCEPT !.app_has_interview =
                   IF emitted_event.stage = "Interview"
                   THEN @ \cup {emitted_event.application_key} ELSE @,
               !.emitted = Append(@, emitted_event),
               !.events = Append(@, emitted_event)]
EmitOne(msg, decision, st, event) ==
    IF event.type = "interview_reminder"
       /\ ~PriorInterview(st.app_has_interview, event.application_key)
    THEN [st EXCEPT !.report_rows =
             Append(@, IgnoredRow(msg, decision.application_key,
                                  "reminder_without_prior_interview",
                                  "ignore:reminder_without_prior_interview"))]
    ELSE Emit(st, Promoted(event))
EmitEvents(msg, decision, left, st) ==
    IF Len(left) = 0 THEN st
    ELSE EmitEvents(msg, decision, Tail(left), EmitOne(msg, decision, st, Head(left)))

\* the body of the loop over the kept messages, on [events, app_has_interview,
\* report_rows, summary_message_rows]
LoopResult(msg, st, key_info, decision, after) ==
    [events |-> after.events,
     app_has_interview |-> after.app_has_interview,
     report_rows |->
         IF Len(after.emitted) > 0
         THEN Append(after.report_rows, EmittedRow(msg, after.emitted[1], decision.rule_id))
         ELSE Append(after.report_rows,
                     IgnoredRow(msg, decision.application_key,
                                IF decision.ignore_reason # "" THEN decision.ignore_reason
                                ELSE "ignored",
                                decision.rule_id)),
     summary_message_rows |-> Append(st.summary_message_rows,
                                     SummaryMessageRow(msg, key_info))]
LoopFrom(msg, st, key_info, decision) ==
    LoopResult(msg, st, key_info, decision,
               EmitEvents(msg, decision, decision.events,
                          [events |-> st.events,
                           app_has_interview |-> st.app_has_interview,
                           report_rows |-> st.report_rows,
                           emitted |-> <<>>]))
LoopBody(msg, st) ==
    The({LoopFrom(msg, st, facts.key_info,
                  DecisionOf(msg, facts.verdict, facts.key_info.application_key)) :
            facts \in {MessageFacts(msg)}})

\* The dates the messages are drawn with: two days, and one for the mail the
\* first scan drops
MessageDates(t) ==
    IF MessageFacts([id |-> MessageId(1)] @@ t).scan.keep THEN {0, TicksPerDay} ELSE {0}

RunInit ==
    /\ phase = "fetch"
    /\ normalized_all = <<>>
    /\ RuleIdle
    /\ OuterIdle
    /\ AiIdle
    /\ artifacts = {}
    /\ raised = ""

\* the source hands over one more message (fetch_messages, normalize_message)
FetchMessage ==
    /\ phase = "fetch"
    /\ Len(normalized_all) < (IF ai_classify THEN MaxLlmMsgs ELSE MaxMsgs)
    /\ \E t \in (IF ai_classify THEN LlmMessageTemplates ELSE RuleMessageTemplates) :
          \E d \in MessageDates(t) :
             normalized_all' =
                 Append(normalized_all,
                        [id |-> MessageId(Len(normalized_all) + 1), date |-> d] @@ t)
    /\ UNCHANGED <<phase, ai_classify, options, outerVars, ruleVars, artifacts, raised, aiVars>>

\* normalized_all.sort, apply_first_scan_filter, normalized.sort
StartRun ==
    /\ phase = "fetch"
    /\ phase' = "classify"
    /\ normalized_all' = StableSort(normalized_all, ByDate)
    /\ \E scan \in {apply_first_scan_filter(normalized_all')} :
          /\ normalized' = StableSort(scan.kept, ByDate)
          /\ first_scan_rows' = scan.rows
    /\ UNCHANGED <<ai_classify, options, outerVars, events, app_has_interview, report_rows,
                   summary_message_rows, audit_rows, app_summary_rows, result,
                   artifacts, raised, aiVars>>

\* one turn of the loop over the kept messages
ProcessMessage ==
    /\ phase = "classify"
    /\ Len(summary_message_rows) < Len(normalized)
    /\ \E after \in {LoopBody(normalized[Len(summary_message_rows) + 1],
                              [events |-> events,
                               app_has_interview |-> app_has_interview,
                               report_rows |-> report_rows,
                               summary_message_rows |-> summary_message_rows])} :
          /\ events' = after.events
          /\ app_has_interview' = after.app_has_interview
          /\ report_rows' = after.report_rows
          /\ summary_message_rows' = after.summary_message_rows
    /\ UNCHANGED <<phase, ai_classify, options, outerVars, normalized_all, normalized, first_scan_rows,
                   audit_rows, app_summary_rows, result, artifacts, raised, aiVars>>

\* after the loop: compute_funnel, build_application_summary_rows,
\* compute_metrics_from_application_summary, the SkillRunResult; with ai_classify
\* the fetched messages are written to relevant_emails.csv
Summarize ==
    /\ phase = "classify"
    /\ Len(summary_message_rows) = Len(normalized)
    /\ \E funnel \in {compute_funnel(events)},
          rows \in {build_application_summary_rows(summary_message_rows, events)} :
          /\ audit_rows' = funnel.rows
          /\ app_summary_rows' = rows
          /\ \E computed \in {compute_metrics_from_application_summary(rows)} :
                result' = [metrics |-> computed.metrics, rates |-> computed.rates,
                           warnings |-> funnel.warnings]
    /\ phase' = IF ai_classify /\ "dry_run" \notin options THEN "ai_key" ELSE "write"
    /\ artifacts' = IF ai_classify /\ "dry_run" \notin options
                    THEN artifacts \cup {"relevant_emails.csv"} ELSE artifacts
    /\ UNCHANGED <<ai_classify, options, outerVars, normalized_all, normalized, first_scan_rows, events,
                   app_has_interview, report_rows, summary_message_rows, raised, aiVars>>

\* classify_messages_with_llm: _require_api_key, which raises ValueError when the
\* environment holds no key
RequireApiKey ==
    /\ phase = "ai_key"
    /\ \E key_present \in BOOLEAN :
          /\ phase' = IF key_present THEN "ai_loop" ELSE "raised"
          /\ raised' = IF key_present THEN "" ELSE "ValueError"
    /\ UNCHANGED <<ai_classify, options, outerVars, normalized_all, ruleVars, artifacts, aiVars>>

\* the exception of _llm_classify_single_email on an outcome, "" when it returns
LlmRaises(outcome) ==
    IF llm_call(outcome) # "" THEN llm_call(outcome) ELSE _extract_json_object(outcome)
\* the row it returns on a message, read off the rows computed once
LlmRowFor(msg, outcome) ==
    The({IF t \in DOMAIN known /\ outcome \in DOMAIN known[t]
         THEN [gmail_message_id |-> msg.id, date |-> msg.date] @@ known[t][outcome]
         ELSE _llm_classify_single_email(msg, outcome).row :
            t \in {[k \in DOMAIN msg \ {"id", "date"} |-> msg[k]]},
            known \in {KnownLlmRows}})

\* the turn of the loop, had the first-scan-kept messages been handed over
ClassifyWithLlmKeptOnly ==
    /\ phase = "ai_loop"
    /\ Len(ai_msg_rows) < Len(normalized_all)
    /\ Len(ai_msg_rows) < Len(normalized)
    /\ \E outcome \in LlmOutcomes :
          IF LlmRaises(outcome) # ""
          THEN /\ phase' = "raised"
               /\ raised' = LlmRaises(outcome)
               /\ UNCHANGED ai_msg_rows
          ELSE /\ ai_msg_rows' =
                      Append(ai_msg_rows,
                             LlmRowFor(normalized[Len(ai_msg_rows) + 1], outcome))
               /\ UNCHANGED <<phase, raised>>
    /\ UNCHANGED <<ai_classify, options, outerVars, normalized_all, ruleVars, artifacts, grouped,
                   ai_app_rows, ai_summary>>
\* classify_messages_with_llm: one turn of its loop over the fetched messages;
\* an exception of _llm_classify_single_email leaves the loop and run()
ClassifyWithLlm ==
    /\ phase = "ai_loop"
    /\ Len(ai_msg_rows) < Len(normalized_all)
    /\ \E outcome \in LlmOutcomes :
          IF LlmRaises(outcome) # ""
          THEN /\ phase' = "raised"
               /\ raised' = LlmRaises(outcome)
               /\ UNCHANGED ai_msg_rows
          ELSE /\ ai_msg_rows' =
                      Append(ai_msg_rows,
                             LlmRowFor(normalized_all[Len(ai_msg_rows) + 1], outcome))
               /\ UNCHANGED <<phase, raised>>
    /\ UNCHANGED <<ai_classify, options, outerVars, normalized_all, ruleVars, artifacts, grouped,
                   ai_app_rows, ai_summary>>

\* the rest of the AI block: the classification table, build_application_rows,
\* build_ai_result_summary and render_ai_sankey, each followed by the writing of
\* its file; the exception of a builder or of the rendering leaves run()
BuildAiArtifacts ==
    /\ phase = "ai_loop"
    /\ Len(ai_msg_rows) = Len(normalized_all)
    /\ grouped' = Grouped(ai_msg_rows)
    /\ ai_app_rows' = ApplicationRowsOf(grouped')
    /\ \E rendering_raises \in BOOLEAN :
          IF ai_app_rows'.error # ""
          THEN /\ ai_summary' = ai_summary
               /\ artifacts' = artifacts \cup {"ai_message_classification.csv"}
               /\ phase' = "raised"
               /\ raised' = ai_app_rows'.error
          ELSE /\ ai_summary' = SummaryOf(grouped')
               /\ artifacts' = artifacts
                     \cup {"ai_message_classification.csv", "ai_application_table.csv",
                           "ai_result_summary.json"}
                     \cup (IF rendering_raises THEN {} ELSE {"ai_sankey.png"})
               /\ phase' = IF rendering_raises THEN "raised" ELSE "write"
               /\ raised' = IF rendering_raises THEN "Exception" ELSE ""
    /\ UNCHANGED <<ai_classify, options, outerVars, normalized_all, ruleVars, ai_msg_rows>>

\* the flags of run() that name a report, and the files each report is written to
RunOptions ==
    {"dry_run", "audit", "report", "key_debug", "domain_debug", "reconcile",
     "first_scan_report"}
ReportFiles(flag) ==
    CASE flag = "first_scan_report" -> {"first_scan_report.csv"}
      [] flag = "report" -> {"rule_report.md"}
      [] flag = "key_debug" -> {"applications_debug.csv", "company_collisions.csv",
                                "role_extraction_debug.csv"}
      [] flag = "domain_debug" -> {"domain_report.csv"}
      [] flag = "reconcile" -> {"reconcile_oa.csv", "oa_false_positives.csv"}
      [] OTHER -> {}
\* the files of the block "if not dry_run": metrics.json, application_summary.csv,
\* the diagram unless its rendering raised, the audit table and metadata_cache.json
RunFiles(flags, rendering_raises) ==
    IF "dry_run" \in flags THEN {}
    ELSE {"metrics.json", "application_summary.csv", "metadata_cache.json"}
            \cup (IF rendering_raises THEN {} ELSE {"sankey.png"})
            \cup (IF "audit" \in flags THEN {"audit_table.csv"} ELSE {})

\* the rest of run(): the files of the rule path (the exception of the diagram
\* is caught and kept as a warning), then the reports that the flags ask for
WriteArtifacts ==
    /\ phase = "write"
    /\ phase' = "done"
    /\ \E rendering_raises \in (IF "dry_run" \in options THEN {FALSE} ELSE BOOLEAN) :
          /\ artifacts' = artifacts
                \cup RunFiles(options, rendering_raises)
                \cup UNION {ReportFiles(flag) : flag \in options}
          /\ result' = IF rendering_raises
                       THEN [result EXCEPT !.warnings = Append(@, "sankey_render_failed")]
                       ELSE result
    /\ UNCHANGED <<ai_classify, options, outerVars, normalized_all, normalized, first_scan_rows, events,
                   app_has_interview, report_rows, summary_message_rows, audit_rows,
                   app_summary_rows, raised, aiVars>>

RuleInit == RunInit /\ ai_classify = FALSE /\ options = {}
RuleNext == FetchMessage \/ StartRun \/ ProcessMessage \/ Summarize \/ WriteArtifacts
SpecRule == RuleInit /\ [][RuleNext]_vars

LlmInit == RunInit /\ ai_classify = TRUE /\ options = {}
LlmNext ==
    \/ FetchMessage
    \/ StartRun
    \/ ProcessMessage
    \/ Summarize
    \/ RequireApiKey
    \/ ClassifyWithLlm
    \/ BuildAiArtifacts
    \/ WriteArtifacts
SpecLLM == LlmInit /\ [][LlmNext]_vars

\* The runs with any flags set, on a fetched set of no message or of one.
OptionsFetched ==
    {<<>>} \cup {<<[id |-> MessageId(1), date |-> 0] @@ t>> : t \in LlmMessageTemplates}
OptionsInit ==
    /\ phase = "fetch"
    /\ ai_classify \in BOOLEAN
    /\ options \in SUBSET RunOptions
    /\ normalized_all \in OptionsFetched
    /\ RuleIdle
    /\ OuterIdle
    /\ AiIdle
    /\ artifacts = {}
    /\ raised = ""
OptionsNext ==
    \/ StartRun
    \/ ProcessMessage
    \/ Summarize
    \/ RequireApiKey
    \/ ClassifyWithLlm
    \/ BuildAiArtifacts
    \/ WriteArtifacts
SpecOptions == OptionsInit /\ [][OptionsNext]_vars

(***************************************************************************)
(* Both classifiers on one message: classify_message_with_meta, and        *)
(* _llm_classify_single_email when the model answers "interview".          *)
(***************************************************************************)
InterviewAnswer ==
    LlmAnswer([is_job_related |-> TRUE, company |-> "", position |-> "",
               event_type |-> "interview", confidence |-> 90])
GateInit ==
    /\ phase = "probe"
    /\ ai_classify = TRUE
    /\ options = {}
    /\ normalized_all \in {<<[id |-> MessageId(1), date |-> 0] @@ t>> : t \in GateMessages}
    /\ RuleIdle
    /\ OuterIdle
    /\ AiIdle
    /\ artifacts = {}
    /\ raised = ""
ProbeBothPaths ==
    /\ phase = "probe"
    /\ phase' = "probed"
    /\ events' = classify_message_with_meta(normalized_all[1]).events
    /\ ai_msg_rows' = <<_llm_classify_single_email(normalized_all[1], InterviewAnswer).row>>
    /\ UNCHANGED <<ai_classify, options, outerVars, normalized_all, normalized, first_scan_rows,
                   app_has_interview, report_rows, summary_message_rows, audit_rows,
                   app_summary_rows, result, artifacts, raised, grouped, ai_app_rows,
                   ai_summary>>
GateNext == ProbeBothPaths
SpecGate == GateInit /\ [][GateNext]_vars

(***************************************************************************)
(* classify_message_with_meta on one message.  The messages pair a company *)
(* sender, two free-mail senders and a sender without an address with      *)
(* subjects and previews that match one or several of the classifier's     *)
(* rules.  After the call events holds the decision's events and           *)
(* report_rows its other fields.                                           *)
(***************************************************************************)
ClassifyMessages ==
    {Message(from_email, subject, snippet, "t1", "") :
        from_email \in {"recruiting@companya.com", "candidate@gmail.com", "me@outlook.com",
                        "Recruiter"},
        subject \in {"Offer letter for the role",
                     "Your application for Data Analyst",
                     "Your feedback is important to us",
                     "Accepted: Interview with X",
                     "Availability Request for Hiring Manager Interview",
                     "Reminder: Your interview for Data Analyst is on Thursday",
                     "Thanks for applying",
                     "Online assessment invitation",
                     "Your weekly deals",
                     "Your application has been withdrawn",
                     "Final round interview confirmation",
                     "Update on your application"},
        snippet \in {"", "Unfortunately we are not moving forward",
                     "We are pleased to offer you the role",
                     "Please share availability"}}
ClassifyInit ==
    /\ phase = "classify_one"
    /\ ai_classify = FALSE
    /\ options = {}
    /\ normalized_all \in {<<[id |-> MessageId(1), date |-> 0] @@ t>> : t \in ClassifyMessages}
    /\ RuleIdle
    /\ OuterIdle
    /\ AiIdle
    /\ artifacts = {}
    /\ raised = ""
ClassifyOne ==
    /\ phase = "classify_one"
    /\ phase' = "classified"
    /\ \E decision \in {classify_message_with_meta(normalized_all[1])} :
          /\ events' = decision.events
          /\ report_rows' = <<[ignored |-> decision.ignored,
                               ignore_reason |-> decision.ignore_reason,
                               application_key |-> decision.application_key,
                               rule_id |-> decision.rule_id]>>
    /\ UNCHANGED <<ai_classify, options, outerVars, normalized_all, normalized, first_scan_rows,
                   app_has_interview, summary_message_rows, audit_rows,
                   app_summary_rows, result, artifacts, raised, aiVars>>
ClassifyNext == ClassifyOne
SpecClassify == ClassifyInit /\ [][ClassifyNext]_vars

(***************************************************************************)
(* apply_first_scan_filter on a list of one or two messages.  The messages *)
(* pair an ATS sender, a calendar vendor, a job board and a company with   *)
(* subjects that meet the subject rules, and with two previews.            *)
(***************************************************************************)
ScanMessages ==
    {Message(from_email, subject, snippet, "t1", "") :
        from_email \in {"jobs@greenhouse.io", "Calendly <invite@calendly.com>",
                        "jobs@linkedin.com", "hr@acme.com"},
        subject \in {"Accepted: Interview with Acme",
                     "Weekly digest: interview tips",
                     "Your interview schedule",
                     "Offer details",
                     "Hello there"},
        snippet \in {"", "Interview availability for your offer"}}
ScanInit ==
    /\ phase = "scan"
    /\ ai_classify = FALSE
    /\ options = {}
    /\ normalized_all \in
          {<<[id |-> MessageId(1), date |-> 0] @@ t>> : t \in ScanMessages}
          \cup {<<[id |-> MessageId(1), date |-> 0] @@ t, [id |-> MessageId(2), date |-> 0] @@ u>> :
                   t \in ScanMessages, u \in ScanMessages}
    /\ RuleIdle
    /\ OuterIdle
    /\ AiIdle
    /\ artifacts = {}
    /\ raised = ""
ScanFilter ==
    /\ phase = "scan"
    /\ phase' = "scanned"
    /\ \E scan \in {apply_first_scan_filter(normalized_all)} :
          /\ normalized' = scan.kept
          /\ first_scan_rows' = scan.rows
    /\ UNCHANGED <<ai_classify, options, outerVars, normalized_all, events, app_has_interview, report_rows,
                   summary_message_rows, audit_rows, app_summary_rows, result,
                   artifacts, raised, aiVars>>
ScanNext == ScanFilter
SpecScan == ScanInit /\ [][ScanNext]_vars

(***************************************************************************)
(* Properties of the rule path.                                            *)
(***************************************************************************)
TerminalEventTypes == {"withdrawn", "rejection", "offer"}
\* the types of the emitted events that are filed under an application
EventTypesUnder(application_id) ==
    {events[i].type : i \in {j \in 1..Len(events) :
                                EventAppId(events[j], summary_message_rows)
                                    = application_id}}
\* the run has built its application table
Summarized == phase \in {"write", "done"}

\* C1: in the application table of the rule path every application that has a
\* withdrawn, rejection or offer event carries the status of one of the terminal
\* events it has (Withdrawn, Rejected, Offer), whatever the dates of its events
C1_TerminalStatusWins ==
    Summarized =>
        \A k \in 1..Len(app_summary_rows) :
            EventTypesUnder(app_summary_rows[k].application_id) \cap TerminalEventTypes # {}
                => app_summary_rows[k].current_status \in
                       {StatusOfType(t) :
                           t \in EventTypesUnder(app_summary_rows[k].application_id)
                                    \cap TerminalEventTypes}
\* an application whose terminal event is followed by a later application, OA or
\* interview event, and whose status is terminal
C1_TerminalBeforeLaterEvent ==
    /\ Summarized
    /\ \E k \in 1..Len(app_summary_rows) :
          /\ app_summary_rows[k].current_status \in {"Withdrawn", "Rejected", "Offer"}
          /\ \E i \in 1..Len(events) : \E j \in 1..Len(events) :
                /\ EventAppId(events[i], summary_message_rows)
                       = app_summary_rows[k].application_id
                /\ EventAppId(events[j], summary_message_rows)
                       = app_summary_rows[k].application_id
                /\ events[i].type \in TerminalEventTypes
                /\ events[j].type \in {"application_received", "oa", "interview_invite",
                                       "round_update"}
                /\ events[j].occurred_at > events[i].occurred_at

\* the dates of the events of a type that are filed under an application
EventDatesUnder(application_id, type) ==
    {events[i].occurred_at : i \in {j \in 1..Len(events) :
                                       /\ events[j].type = type
                                       /\ EventAppId(events[j], summary_message_rows)
                                              = application_id}}
\* the application has a rejection and an offer and no withdrawal
RejectedAndOffered(application_id) ==
    /\ {"rejection", "offer"} \subseteq EventTypesUnder(application_id)
    /\ "withdrawn" \notin EventTypesUnder(application_id)
\* the last offer of the application is dated after its last rejection
OfferAfterRejection(application_id) ==
    MaxOf(EventDatesUnder(application_id, "offer"))
        > MaxOf(EventDatesUnder(application_id, "rejection"))
RejectionAfterOffer(application_id) ==
    MaxOf(EventDatesUnder(application_id, "rejection"))
        > MaxOf(EventDatesUnder(application_id, "offer"))

NextMessage == normalized[Len(summary_message_rows) + 1]
VerdictOn(msg) == MessageFacts(msg).verdict
KeyOf(msg) == MessageFacts(msg).key_info.application_key
NextIsReminder ==
    /\ phase = "classify"
    /\ Len(summary_message_rows) < Len(normalized)
    /\ VerdictOn(NextMessage).type = "interview_reminder"
\* an Interview-stage event of the key is among the events emitted so far
InterviewEmittedFor(application_key) ==
    \E i \in 1..Len(events) :
        events[i].stage = "Interview" /\ events[i].application_key = application_key
\* the keys of the kept messages on which the rules give an interview_invite or
\* a round_update
KeysWithInterviewMessage ==
    {KeyOf(normalized[i]) :
        i \in {j \in 1..Len(normalized) :
                  VerdictOn(normalized[j]).type \in {"interview_invite", "round_update"}}}
\* one turn of the loop on a reminder: emitted as a round_update of stage
\* Interview exactly when an Interview-stage event of its key was emitted before,
\* else dropped without a trace in the events or in app_has_interview
ReminderTurn ==
    (NextIsReminder /\ summary_message_rows' # summary_message_rows) =>
        IF InterviewEmittedFor(KeyOf(NextMessage))
        THEN /\ Len(events') = Len(events) + 1
             /\ SubSeq(events', 1, Len(events)) = events
             /\ events'[Len(events')].type = "round_update"
             /\ events'[Len(events')].stage = "Interview"
             /\ events'[Len(events')].application_key = KeyOf(NextMessage)
             /\ events'[Len(events')].evidence.message_id = NextMessage.id
        ELSE /\ events' = events
             /\ app_has_interview' = app_has_interview
\* (true of the run before its first step, and kept by every step:) no
\* interview_reminder is among the counted events, and a key whose only
\* interview-like messages are reminders has no Interview-stage event and no
\* counted interview
NoReminderCounted ==
    /\ \A i \in 1..Len(events) : events[i].type # "interview_reminder"
    /\ \A i \in 1..Len(events) :
          events[i].stage = "Interview" => events[i].application_key \in KeysWithInterviewMessage
    /\ app_has_interview \subseteq KeysWithInterviewMessage
    /\ Summarized =>
          \A k \in 1..Len(audit_rows) :
              audit_rows[k].application_key \notin KeysWithInterviewMessage
                  => audit_rows[k].counted_interviews = "0"

\* C5: on the rule path a reminder is emitted, as a round_update of stage
\* Interview, if and only if an Interview-stage event of the same application key
\* was emitted from an earlier message, and is dropped otherwise without marking
\* the key; no interview_reminder reaches the counted events, and an application
\* with reminders alone has no interview
C5_ReminderNeedsPriorInterview == [][ReminderTurn /\ NoReminderCounted']_vars
\* a run that dropped one reminder and emitted another as a round_update
C5_ReminderDroppedAndPromoted ==
    /\ \E i \in 1..Len(report_rows) :
          report_rows[i].rule_id = "ignore:reminder_without_prior_interview"
    /\ \E i \in 1..Len(events) :
          /\ events[i].type = "round_update"
          /\ events[i].evidence.pattern = "interview_reminder:timing_language"

(***************************************************************************)
(* Properties of the runs with ai_classify.                                *)
(***************************************************************************)
\* C6: every row of the LLM classifier with is_job_related false has the event
\* type other and no company
C6_NotJobRelatedRowIsOther ==
    \A i \in 1..Len(ai_msg_rows) :
        ai_msg_rows[i].is_job_related = "false"
            => ai_msg_rows[i].event_type = "other" /\ ai_msg_rows[i].company = ""

\* C7: the failure of the request for one message (LLM disabled, HTTP error, no
\* connection or timeout, a reply that is no JSON) does not end the run
C7_FailedRequestDoesNotAbortRun ==
    ~(phase = "raised" /\ raised \in {"RuntimeError", "JSONDecodeError"})

\* the first scan dropped the i-th fetched message
FirstScanDropped(i) ==
    /\ i \in 1..Len(first_scan_rows)
    /\ first_scan_rows[i].gmail_message_id = normalized_all[i].id
    /\ first_scan_rows[i].kept_or_dropped = "dropped"
AiTableWritten == "ai_message_classification.csv" \in artifacts

\* C16: in a run with ai_classify the rows of the LLM classifier are, one for
\* one and in order, those of the fetched messages classified so far, whatever
\* the first scan decided about them, and the classification table is written
\* with one row per fetched message; the rules classifier sees the messages the
\* first scan kept and no other.
C16_LlmSeesEveryFetchedMessage ==
    /\ Len(ai_msg_rows) <= Len(normalized_all)
    /\ \A i \in 1..Len(ai_msg_rows) :
          ai_msg_rows[i].gmail_message_id = normalized_all[i].id
    /\ AiTableWritten => Len(ai_msg_rows) = Len(normalized_all)
    /\ Len(summary_message_rows) <= Len(normalized)
    /\ \A i \in 1..Len(summary_message_rows) :
          /\ summary_message_rows[i].message_id = normalized[i].id
          /\ \E k \in 1..Len(first_scan_rows) :
                /\ first_scan_rows[k].gmail_message_id = normalized[i].id
                /\ first_scan_rows[k].kept_or_dropped = "kept"
\* the table was written with the row of a message that the first scan dropped
\* in front of the row of a message that it kept
C16_DroppedMessageHasLlmRow ==
    /\ AiTableWritten
    /\ Len(normalized_all) = 2
    /\ FirstScanDropped(1)
    /\ ~FirstScanDropped(2)
    /\ Len(summary_message_rows) = 1
    /\ Len(ai_msg_rows) = 2
    /\ ai_msg_rows[1].gmail_message_id = normalized_all[1].id

(***************************************************************************)
(* Properties of the two interview tests on one message.                   *)
(***************************************************************************)
Probed == phase = "probed"
ProbedMessage == normalized_all[1]
ProbedText == Lower(ProbedMessage.subject \o " " \o ProbedMessage.snippet)
RuleEmitsInvite ==
    \E i \in 1..Len(events) : events[i].type = "interview_invite"
LlmKeepsInterview == ai_msg_rows[1].event_type = "interview"
PassesLlmGate ==
    _has_meeting_invite_signal(ProbedMessage.subject,
                               IF ProbedMessage.body # "" THEN ProbedMessage.body
                               ELSE ProbedMessage.snippet)

\* C9 as claimed: the rules emit an interview_invite only on a message that
\* passes the meeting-invite signal gate of the LLM path, and the rule path's own
\* interview test refuses no message that passes the gate
C9_OneInterviewDefinition ==
    Probed =>
        /\ RuleEmitsInvite => PassesLlmGate
        /\ PassesLlmGate => _should_create_interview_event(ProbedMessage)

\* C9: each path applies its own interview test.  The rules emit an
\* interview_invite only on a message that is not from gmail.com and whose
\* subject and preview hold no negative phrase and hold a strong scheduling
\* pattern or an interview anchor together with a scheduling phrase, and every
\* event they emit on such a message is of stage Interview; the LLM path keeps an
\* interview answer exactly on a message that is no calendar-RSVP noise and that
\* passes the meeting-invite signal gate
C9_EachPathItsOwnTest ==
    Probed =>
        /\ RuleEmitsInvite =>
              /\ ~ContainsAny(ProbedText, INTERVIEW_NEGATIVE_PHRASES)
              /\ \/ MatchesInterviewStrongPattern(ProbedText)
                 \/ /\ ContainsAny(ProbedText, INTERVIEW_ANCHOR_PHRASES)
                    /\ ContainsAny(ProbedText, INTERVIEW_SCHEDULING_PHRASES)
              /\ _extract_domain(ProbedMessage.from_email) # "gmail.com"
              /\ \A i \in 1..Len(events) : events[i].stage = "Interview"
        /\ LlmKeepsInterview <=>
              /\ ~_is_calendar_rsvp_noise(_sender_email_address(ProbedMessage.from_email),
                                          ProbedMessage.subject)
              /\ PassesLlmGate
\* a message on which the rules emit an interview_invite and the LLM path does
\* not keep the interview answer
C9_RuleInviteRefusedByLlmGate ==
    Probed /\ RuleEmitsInvite /\ ~LlmKeepsInterview /\ ~PassesLlmGate

(***************************************************************************)
(* Properties of alias merging and vendor routing.                         *)
(***************************************************************************)
Built == phase = "built"
\* the job-related rows of senders that are neither personal nor intermediary,
\* and under each such domain root the label of every one of its rows
SenderRows == AliasRows(WithFacts(ai_msg_rows))
SenderLabels == LabelsByRoot(SenderRows)
\* no label of the root scores higher than t
HasMaxScore(t, all) ==
    \A l \in Range(all) :
        ~TupleLess(AliasScore(t, SeqDistinct(all), all), AliasScore(l, SeqDistinct(all), all))
\* the message is filed under this application id
FiledUnder(message_id, app_id) ==
    \E g \in 1..Len(grouped.ids) :
        /\ grouped.ids[g] = app_id
        /\ \E k \in 1..Len(grouped.groups[g]) :
              grouped.groups[g][k].gmail_message_id = message_id
\* the rows of the application table with this id
TableRowsOf(app_id) ==
    {k \in 1..Len(ai_app_rows.rows) : ai_app_rows.rows[k].application_id = app_id}
\* the row's label is the label t or similar to it
JoinsTarget(r, t) ==
    RowFacts(r).label = t \/ _similar_company_labels(RowFacts(r).label, t)

\* C11: under every sender-domain root that is neither personal nor intermediary
\* there is a label of maximum score (rows with a similar label, rows with the
\* label itself, shorter length) such that every job-related row of the root
\* whose label is that target or similar to it is filed under the one application
\* whose id is the target, and the application table holds exactly one row of
\* that id, with the target as its company.
C11_SimilarLabelsJoinTarget ==
    Built =>
       \A root \in DOMAIN SenderLabels :
          \E t \in Range(SenderLabels[root]) :
             /\ HasMaxScore(t, SenderLabels[root])
             /\ \A i \in 1..Len(SenderRows) :
                   (RowFacts(SenderRows[i]).root = root /\ JoinsTarget(SenderRows[i], t))
                      => /\ FiledUnder(SenderRows[i].gmail_message_id, t)
                         /\ ai_app_rows.error = ""
                               => /\ Cardinality(TableRowsOf(t)) = 1
                                  /\ \A k \in TableRowsOf(t) :
                                        ai_app_rows.rows[k].company = t
\* two rows of one root with different labels share an application, and a third
\* row of the root, whose label is not similar, is filed elsewhere
C11_TwoLabelsMergedThirdApart ==
    /\ Built
    /\ \E i, j, k \in 1..Len(SenderRows) :
          /\ RowFacts(SenderRows[i]).root = RowFacts(SenderRows[j]).root
          /\ RowFacts(SenderRows[i]).root = RowFacts(SenderRows[k]).root
          /\ RowFacts(SenderRows[i]).label # RowFacts(SenderRows[j]).label
          /\ \E app_id \in Range(grouped.ids) :
                /\ FiledUnder(SenderRows[i].gmail_message_id, app_id)
                /\ FiledUnder(SenderRows[j].gmail_message_id, app_id)
                /\ ~FiledUnder(SenderRows[k].gmail_message_id, app_id)

\* the rows filed under some application, each with its application id
FiledRows ==
    UNION {{[app_id |-> grouped.ids[g], row |-> grouped.groups[g][k]] :
               k \in 1..Len(grouped.groups[g])} : g \in 1..Len(grouped.ids)}
FromIntermediary(row) == RowFacts(row).root \in INTERMEDIARY_EMAIL_ROOTS

\* C12: no key of the alias map has a personal or an intermediary domain root;
\* a row of an intermediary sender is filed under its own canonical label, so two
\* rows of one intermediary root share an application only when their labels
\* are the same.
C12_IntermediaryRowsKeepTheirLabel ==
    Built =>
       /\ \A p \in DOMAIN grouped.alias_map :
             p[1] \notin PERSONAL_EMAIL_ROOTS \cup INTERMEDIARY_EMAIL_ROOTS
       /\ \A f \in FiledRows :
             FromIntermediary(f.row) => f.app_id = RowFacts(f.row).label
       /\ \A f, h \in FiledRows :
             (/\ FromIntermediary(f.row)
              /\ RowFacts(f.row).root = RowFacts(h.row).root
              /\ f.app_id = h.app_id) => RowFacts(f.row).label = RowFacts(h.row).label
\* two rows of one intermediary root whose labels are similar, which alias
\* merging would join under a company sender, are filed under two applications
C12_SimilarVendorLabelsApart ==
    /\ Built
    /\ \E f, h \in FiledRows :
          /\ FromIntermediary(f.row)
          /\ RowFacts(f.row).root = RowFacts(h.row).root
          /\ _similar_company_labels(RowFacts(f.row).label, RowFacts(h.row).label)
          /\ f.app_id # h.app_id

\* what _canonical_company_name derives of a row before it chooses: the company
\* of the model reply without legal suffixes, the company domain its text
\* mentions, and the sender's display name without generic tokens and suffixes
RoutingOf(row) ==
    [company |-> _strip_company_suffixes(RowGet(row, "company")),
     text_hint |-> _company_from_text(
                      RowGet(row, "from_email_raw") \o " " \o RowGet(row, "subject")
                         \o "  " \o _strip_company_suffixes(RowGet(row, "company"))),
     display |-> _company_from_sender_display(RowGet(row, "from_email_raw"))]
KnownRouting == [t \in AliasRowTemplates |-> RoutingOf(t)]
Routing(row) == KnownRouting[RowTexts(row)]
\* a row of an intermediary sender whose reply names no company of its own,
\* whose text mentions no company domain, and whose sender has a display name
\* that is more than generic tokens
VendorRouted(row) ==
    /\ FromIntermediary(row)
    /\ Routing(row).company \in {""} \cup PERSONAL_EMAIL_ROOTS \cup INTERMEDIARY_EMAIL_ROOTS
    /\ Routing(row).text_hint = ""
    /\ Routing(row).display # ""
\* the row is labelled with the display name, not with the vendor's root, and
\* shares its application with every row of that company
LabelledByDisplayName(f) ==
    /\ RowFacts(f.row).label = Routing(f.row).display
    /\ RowFacts(f.row).label # RowFacts(f.row).root
    /\ f.app_id = Routing(f.row).display
    /\ \A h \in FiledRows :
          _resolved_row_company(h.row, grouped.alias_map) = Routing(f.row).display
             => h.app_id = f.app_id

\* C13 as stated: every such row is labelled with what is left of the display
\* name, whenever that is not empty.
C13_DisplayNameIsTheLabel ==
    Built => \A f \in FiledRows : VendorRouted(f.row) => LabelledByDisplayName(f)
\* C13, amended: every such row is labelled with what is left of the display
\* name whenever that is neither empty nor itself an intermediary root; when it
\* is an intermediary root the label is the company of the reply, or the
\* sender's domain root when the reply names none.
C13_DisplayNameUnlessVendor ==
    Built =>
       \A f \in FiledRows :
          VendorRouted(f.row) =>
             IF Routing(f.row).display \notin INTERMEDIARY_EMAIL_ROOTS
             THEN LabelledByDisplayName(f)
             ELSE RowFacts(f.row).label =
                     (IF Routing(f.row).company # "" THEN Routing(f.row).company
                      ELSE _normalize_text(RowFacts(f.row).root))
\* a vendor's mail that names the hiring company in its display name only shares
\* an application with a mail of another sender
C13_VendorMailJoinsHiringCompany ==
    /\ Built
    /\ \E f, h \in FiledRows :
          /\ VendorRouted(f.row)
          /\ Routing(f.row).display \notin INTERMEDIARY_EMAIL_ROOTS
          /\ RowFacts(h.row).root # RowFacts(f.row).root
          /\ h.app_id = f.app_id

(***************************************************************************)
(* Properties of classify_message_with_meta on one message.                *)
(***************************************************************************)
Classified == phase = "classified"
ClassifiedMessage == normalized_all[1]
ClassifiedText ==
    ClassifiedMessage.subject \o " " \o ClassifiedMessage.snippet \o " "
        \o ClassifiedMessage.from_email
\* the event kinds in the order of their rules
EventKinds ==
    <<"offer", "rejection", "withdrawn", "oa", "interview_reminder", "interview_invite",
      "round_update", "status_update", "application_received">>
\* the condition of the rule of a kind on the classified message
KindMatches(kind) ==
    CASE kind = "offer" -> _match_any(OFFER_PATTERNS, ClassifiedText) # ""
      [] kind = "rejection" -> _is_rejection_text(ClassifiedText)[1]
      [] kind = "withdrawn" -> _match_any(WITHDRAWN_PATTERNS, ClassifiedText) # ""
      [] kind = "oa" -> _match_any(OA_PATTERNS, ClassifiedText) # ""
      [] kind = "interview_reminder" ->
            /\ Contains(Lower(ClassifiedText), "reminder:")
            /\ \/ Contains(Lower(ClassifiedText), "is on")
               \/ Contains(Lower(ClassifiedText), "tomorrow at")
      [] kind = "interview_invite" -> _should_create_interview_event(ClassifiedMessage)
      [] kind = "round_update" -> _match_any(ROUND_UPDATE_PATTERNS, ClassifiedText) # ""
      [] kind = "status_update" -> _match_any(STATUS_UPDATE_PATTERNS, ClassifiedText) # ""
      [] kind = "application_received" ->
            _match_any(APPLICATION_RECEIVED_PATTERNS, ClassifiedText) # ""
MatchingKinds == {i \in 1..Len(EventKinds) : KindMatches(EventKinds[i])}
FirstMatchingKind ==
    IF MatchingKinds = {} THEN "no_match" ELSE EventKinds[MinOf(MatchingKinds)]
NoiseReason == _is_calendar_or_survey_noise(ClassifiedMessage)

\* C14: the call returns at most one event and ignored is true exactly when it
\* returns none; a message that a noise rule applies to yields no event whatever
\* else it matches; on any other message an emitted event is of the first kind,
\* in the order of EventKinds, whose rule matches, and a message that matches no
\* kind is ignored as no_match.
C14_FirstMatchingKindWins ==
    Classified =>
       /\ Len(events) <= 1
       /\ report_rows[1].ignored <=> (Len(events) = 0)
       /\ NoiseReason # ""
             => /\ Len(events) = 0
                /\ report_rows[1].ignore_reason = NoiseReason
       /\ NoiseReason = ""
             => /\ Len(events) = 1 => events[1].type = FirstMatchingKind
                /\ FirstMatchingKind = "no_match"
                      => /\ Len(events) = 0
                         /\ report_rows[1].ignore_reason = "no_match"
                /\ FirstMatchingKind \notin {"no_match", "interview_invite"}
                      => Len(events) = 1
\* a message that matches the offer rule and the rejection rule yields an offer
C14_OfferAndRejectionYieldOffer ==
    /\ Classified
    /\ NoiseReason = ""
    /\ KindMatches("offer")
    /\ KindMatches("rejection")
    /\ Len(events) = 1
    /\ events[1].type = "offer"

\* the classified message reaches the interview-invite rule: no noise rule and no
\* earlier kind applies to it, and the interview test passes
ReachesInterviewRule ==
    /\ NoiseReason = ""
    /\ FirstMatchingKind = "interview_invite"
ClassifiedDomain == _extract_domain(ClassifiedMessage.from_email)
IgnoredAsGmailInterviewNoise ==
    /\ Len(events) = 0
    /\ report_rows[1].ignored
    /\ report_rows[1].ignore_reason = "gmail_interview_noise"
InterviewInviteEmitted ==
    /\ Len(events) = 1
    /\ events[1].type = "interview_invite"

\* C18 as stated: a message that reaches the interview-invite rule from any
\* free-mail sender (FREE_DOMAINS) is ignored as gmail_interview_noise, and an
\* interview_invite is emitted only for a sender outside FREE_DOMAINS.
C18_FreeMailInviteIgnored ==
    Classified =>
       /\ ReachesInterviewRule /\ ClassifiedDomain \in FREE_DOMAINS
             => IgnoredAsGmailInterviewNoise
       /\ InterviewInviteEmitted => ClassifiedDomain \notin FREE_DOMAINS
\* C18 amended: a message that reaches the interview-invite rule is ignored as
\* gmail_interview_noise exactly when its sender domain is gmail.com; from any
\* other sender it yields one interview_invite, with confidence 0.35 when the
\* domain is empty or another free-mail provider and 0.9 otherwise; no
\* interview_invite is ever emitted for a gmail.com sender.
C18_OnlyGmailInviteIgnored ==
    Classified =>
       /\ ReachesInterviewRule /\ ClassifiedDomain = "gmail.com"
             => IgnoredAsGmailInterviewNoise
       /\ ReachesInterviewRule /\ ClassifiedDomain # "gmail.com"
             => /\ InterviewInviteEmitted
                /\ events[1].confidence =
                      IF ClassifiedDomain = "" \/ ClassifiedDomain \in FREE_DOMAINS
                      THEN 35 ELSE 90
       /\ InterviewInviteEmitted => ClassifiedDomain # "gmail.com"
       /\ report_rows[1].ignore_reason = "gmail_interview_noise"
             => ReachesInterviewRule /\ ClassifiedDomain = "gmail.com"
\* an interview invitation from a gmail.com sender was ignored as gmail_interview_noise
C18_GmailInviteIgnored ==
    /\ Classified
    /\ ReachesInterviewRule
    /\ ClassifiedDomain = "gmail.com"
    /\ IgnoredAsGmailInterviewNoise

(***************************************************************************)
(* Properties of the first-scan filter.                                    *)
(***************************************************************************)
Scanned == phase = "scanned"
ScanSubject(i) == Lower(Strip(normalized_all[i].subject))
ScanDomain(i) == extract_domain(normalized_all[i].from_email)
HasStrongSignal(subject_l) == \E n \in STRONG_JOB_SIGNALS : Contains(subject_l, n)
HasScheduleToken(subject_l) == \E n \in INTERVIEW_SCHEDULE_SIGNALS : Contains(subject_l, n)
\* the condition of rule k of the seven on a subject and a sender domain
ScanRuleMatches(k, subject_l, domain) ==
    CASE k = 1 -> \E p \in {"accepted:", "declined:", "tentative:"} : StartsWith(subject_l, p)
      [] k = 2 -> Contains(subject_l, "newsletter") \/ Contains(subject_l, "digest")
      [] k = 3 -> domain \in {"linkedin.com", "bizreach.co.jp"} /\ ~HasStrongSignal(subject_l)
      [] k = 4 -> domain \in ATS_WHITELIST
      [] k = 5 -> \E v \in CALENDAR_VENDORS : EndsWith(domain, v)
      [] k = 6 -> HasStrongSignal(subject_l)
      [] k = 7 -> TRUE
FirstScanRule(subject_l, domain) ==
    MinOf({k \in 1..7 : ScanRuleMatches(k, subject_l, domain)})
ScanRuleKeeps(k, subject_l) ==
    \/ k \in {4, 6}
    \/ k = 5 /\ HasScheduleToken(subject_l)
ScanRuleOf(i) == FirstScanRule(ScanSubject(i), ScanDomain(i))
ScanRowKept(i) == first_scan_rows[i].kept_or_dropped = "kept"

\* C15: the filter reports one row per message; a message is kept exactly when
\* the first of the seven rules that matches its subject and sender domain is a
\* keeping rule, and the kept list is the messages so kept, in order; two
\* messages with the same subject and sender domain get the same decision and
\* the same reason whatever their previews.
C15_FirstMatchingRuleDecides ==
    Scanned =>
       /\ Len(first_scan_rows) = Len(normalized_all)
       /\ \A i \in 1..Len(normalized_all) :
             /\ ScanRowKept(i) <=> ScanRuleKeeps(ScanRuleOf(i), ScanSubject(i))
             /\ first_scan_rows[i].kept_or_dropped \in {"kept", "dropped"}
             /\ first_scan_rows[i].gmail_message_id = normalized_all[i].id
       /\ normalized = SelectSeq(normalized_all,
                                 LAMBDA m : \E i \in 1..Len(normalized_all) :
                                               normalized_all[i] = m /\ ScanRowKept(i))
       /\ \A i, j \in 1..Len(normalized_all) :
             ScanSubject(i) = ScanSubject(j) /\ ScanDomain(i) = ScanDomain(j)
                => /\ ScanRowKept(i) <=> ScanRowKept(j)
                   /\ first_scan_rows[i].drop_reason = first_scan_rows[j].drop_reason
\* an ATS message with a calendar-response subject was dropped next to a
\* calendar-vendor message with a strong subject that names no scheduling
C15_AtsAndVendorDropped ==
    /\ Scanned
    /\ Len(normalized_all) = 2
    /\ ScanDomain(1) \in ATS_WHITELIST
    /\ ScanRuleOf(1) = 1
    /\ ~ScanRowKept(1)
    /\ ScanRuleOf(2) = 5
    /\ HasStrongSignal(ScanSubject(2))
    /\ ~HasScheduleToken(ScanSubject(2))
    /\ ~ScanRowKept(2)

\* the label a root's label resolves to through the alias map
ResolvedLabel(root, label) ==
    IF <<root, label>> \in DOMAIN grouped.alias_map
    THEN grouped.alias_map[<<root, label>>] ELSE label

\* C20: the alias map built again from the same rows is the same map; under one
\* domain root all aliases point to one target, which differs from them and is
\* no key of the map, so that resolving a resolved label returns it unchanged.
C20_NoAliasChains ==
    Built =>
       /\ _build_domain_alias_map(WithFacts(ai_msg_rows)) = grouped.alias_map
       /\ \A p \in DOMAIN grouped.alias_map :
             /\ grouped.alias_map[p] # p[2]
             /\ <<p[1], grouped.alias_map[p]>> \notin DOMAIN grouped.alias_map
             /\ \A q \in DOMAIN grouped.alias_map :
                   q[1] = p[1] => grouped.alias_map[q] = grouped.alias_map[p]
       /\ \A root \in DOMAIN SenderLabels : \A label \in Range(SenderLabels[root]) :
             ResolvedLabel(root, ResolvedLabel(root, label)) = ResolvedLabel(root, label)
\* a root with two aliases of one target
C20_TwoAliasesOneTarget ==
    /\ Built
    /\ \E p, q \in DOMAIN grouped.alias_map :
          /\ p # q
          /\ p[1] = q[1]
          /\ grouped.alias_map[p] = grouped.alias_map[q]

\* the rearrangements of a list
Rearrangements(n) ==
    {p \in [1..n -> 1..n] : \A i, j \in 1..n : p[i] = p[j] => i = j}
Permuted(rows, p) == [i \in 1..Len(rows) |-> rows[p[i]]]
\* the applications of a table, as the claim compares them
ApplicationsOf(table) ==
    {[application_id |-> table.rows[k].application_id,
      company |-> table.rows[k].company,
      position |-> table.rows[k].position,
      current_status |-> table.rows[k].current_status,
      email_count |-> table.rows[k].email_count] : k \in 1..Len(table.rows)}

\* C19: whatever the order the classified rows are handed over in,
\* build_application_rows returns the same set of applications (id, company,
\* position, status and number of mails) and build_ai_result_summary the same
\* seven counts.
C19_RowOrderDoesNotMatter ==
    Built =>
        \A p \in Rearrangements(Len(ai_msg_rows)) :
            /\ ApplicationsOf(build_application_rows(Permuted(ai_msg_rows, p)))
                  = ApplicationsOf(ai_app_rows)
            /\ build_ai_result_summary(Permuted(ai_msg_rows, p)) = ai_summary

(***************************************************************************)
(* Properties of the end of run(): diagrams, artifacts and warnings.       *)
(***************************************************************************)
RenderWarned ==
    \E i \in 1..Len(result.warnings) : result.warnings[i] = "sankey_render_failed"
\* the run ended with the files of the rule path written and, where its diagram
\* is missing, the warning in its place
RuleDiagramFailureKept ==
    phase = "done" =>
        /\ {"metrics.json", "application_summary.csv"} \subseteq artifacts
        /\ "sankey.png" \notin artifacts => RenderWarned

\* C21: the exception of a diagram rendering, of render_sankey or of
\* render_ai_sankey, never leaves run(); the run ends with metrics.json and
\* application_summary.csv written, with the AI tables and summary written when
\* ai_classify is on, and with the warning sankey_render_failed in the result
\* for each diagram that is missing.
C21_RenderFailureIsNotFatal ==
    /\ ~(phase = "raised" /\ raised = "Exception")
    /\ RuleDiagramFailureKept
    /\ phase = "done" /\ ai_classify
          => /\ {"ai_message_classification.csv", "ai_application_table.csv",
                  "ai_result_summary.json"} \subseteq artifacts
             /\ "ai_sankey.png" \notin artifacts => RenderWarned

\* C22: a run with dry_run writes no file, whatever its other flags and with
\* ai_classify off or on.
C22_DryRunWritesNoFile ==
    "dry_run" \in options => artifacts = {}

(***************************************************************************)
(* The API server: POST /api/scan (src/api/server.py, run_scan), with the  *)
(* Outlook adapter's fetch_messages as the fetch of the run it starts.     *)
(* The endpoint is a plain def, so requests run on the server's worker     *)
(* threads and the steps of two requests interleave at every operation on  *)
(* the file system and on the session store.                               *)
(***************************************************************************)
Requests == {"r1", "r2"}
SessionIds == {"s1", "s2"}

\* a token payload: "expired" stands for _token_expired(payload) at the time of the call
TokenPayloads ==
    [access_token : {"a0"}, refresh_token : {"", "rt"}, expired : BOOLEAN]

\* the access token the k-th refresh of request r obtains
NewAccessToken(r, k) == "a_" \o r \o (IF k = 1 THEN "_1" ELSE "_2")

EmptyRuntime == [root |-> FALSE, tokens |-> FALSE, token_file |-> <<>>, outs |-> {}]

NewScan(session_id) ==
    [pc |-> "start", session_id |-> session_id, session_payload |-> <<>>,
     token_payload |-> <<>>, refreshes |-> 0, refreshed |-> <<>>,
     failed |-> FALSE, status |-> 0]

KnownSessionSets == {{"s1"}, {"s1", "s2"}}

ApiScanInit ==
    /\ phase = "api"
    /\ ai_classify = TRUE
    /\ options = {}
    /\ normalized_all = <<>>
    /\ RuleIdle
    /\ AiIdle
    /\ artifacts = {}
    /\ raised = ""
    /\ \E other \in SessionIds :
          scans = [r \in Requests |-> NewScan(IF r = "r1" THEN "s1" ELSE other)]
    /\ \E known \in KnownSessionSets, token \in TokenPayloads :
          sessions = [s \in known |-> [provider |-> "outlook", token_json |-> <<token>>]]
    /\ runtime_fs = [s \in SessionIds |-> EmptyRuntime]
    /\ oauth = [pc |-> "idle"]
    /\ ai_sankey = <<>>

ScanUnchanged ==
    UNCHANGED <<phase, ai_classify, options, normalized_all, ruleVars, artifacts, raised,
                aiVars, oauth, ai_sankey>>

\* run_scan: _require_session and the token_json check
RequireSession(r) ==
    /\ scans[r].pc = "start"
    /\ IF scans[r].session_id \in DOMAIN sessions
       THEN scans' = [scans EXCEPT ![r].session_payload = <<sessions[scans[r].session_id]>>,
                                   ![r].pc = "mkdir"]
       ELSE scans' = [scans EXCEPT ![r].status = 401, ![r].pc = "done"]
    /\ UNCHANGED <<sessions, runtime_fs>>
    /\ ScanUnchanged

\* run_scan: token_dir.mkdir(parents=True, exist_ok=True)
MakeTokenDir(r) ==
    /\ scans[r].pc = "mkdir"
    /\ runtime_fs' = [runtime_fs EXCEPT ![scans[r].session_id].root = TRUE,
                                        ![scans[r].session_id].tokens = TRUE]
    /\ scans' = [scans EXCEPT ![r].pc = "write"]
    /\ UNCHANGED sessions
    /\ ScanUnchanged

\* run_scan: token_path.write_text(json.dumps(token_json)); outside the try,
\* so a missing directory ends the request with an unhandled FileNotFoundError
WriteTokenFile(r) ==
    /\ scans[r].pc = "write"
    /\ IF runtime_fs[scans[r].session_id].tokens
       THEN /\ runtime_fs' = [runtime_fs EXCEPT ![scans[r].session_id].token_file =
                                 scans[r].session_payload[1].token_json]
            /\ scans' = [scans EXCEPT ![r].pc = "mkdtemp"]
       ELSE /\ scans' = [scans EXCEPT ![r].status = 500, ![r].pc = "done"]
            /\ UNCHANGED runtime_fs
    /\ UNCHANGED sessions
    /\ ScanUnchanged

\* run_scan: tempfile.mkdtemp(prefix="scan_", dir=runtime_root)
MakeTransientOut(r) ==
    /\ scans[r].pc = "mkdtemp"
    /\ IF runtime_fs[scans[r].session_id].root
       THEN /\ runtime_fs' = [runtime_fs EXCEPT ![scans[r].session_id].outs = @ \cup {r}]
            /\ scans' = [scans EXCEPT ![r].pc = "load"]
       ELSE /\ scans' = [scans EXCEPT ![r].status = 500, ![r].pc = "done"]
            /\ UNCHANGED runtime_fs
    /\ UNCHANGED sessions
    /\ ScanUnchanged

\* fetch_messages: _resolve_token_path, _load_token_payload and the access_token check
LoadTokenPayload(r) ==
    /\ scans[r].pc = "load"
    /\ IF runtime_fs[scans[r].session_id].token_file = <<>>
       THEN scans' = [scans EXCEPT ![r].failed = TRUE, ![r].pc = "finally"]
       ELSE scans' = [scans EXCEPT ![r].token_payload =
                                       runtime_fs[scans[r].session_id].token_file,
                                   ![r].pc = "expiry"]
    /\ UNCHANGED <<sessions, runtime_fs>>
    /\ ScanUnchanged

\* fetch_messages: if _token_expired(token_payload)
CheckTokenExpired(r) ==
    /\ scans[r].pc = "expiry"
    /\ scans' = [scans EXCEPT ![r].pc =
                    IF scans[r].token_payload[1].expired THEN "refresh_expired" ELSE "fetch"]
    /\ UNCHANGED <<sessions, runtime_fs>>
    /\ ScanUnchanged

\* fetch_messages: _refresh_access_token, then the write of the merged payload
\* to token_path (after token_path.parent.mkdir(parents=True, exist_ok=True))
RefreshAccessToken(r) ==
    /\ scans[r].pc \in {"refresh_expired", "refresh_rejected"}
    /\ \E endpoint_answers \in BOOLEAN :
          IF scans[r].token_payload[1].refresh_token = "" \/ ~endpoint_answers
          THEN /\ scans' = [scans EXCEPT ![r].failed = TRUE, ![r].pc = "finally"]
               /\ UNCHANGED runtime_fs
          ELSE /\ scans' = [scans EXCEPT
                               ![r].token_payload =
                                   <<[access_token |-> NewAccessToken(r, scans[r].refreshes + 1),
                                      refresh_token |-> scans[r].token_payload[1].refresh_token,
                                      expired |-> FALSE]>>,
                               ![r].refreshes = @ + 1,
                               ![r].pc = IF scans[r].pc = "refresh_expired"
                                         THEN "fetch" ELSE "fetch_again"]
               /\ runtime_fs' = [runtime_fs EXCEPT
                                    ![scans[r].session_id].root = TRUE,
                                    ![scans[r].session_id].tokens = TRUE,
                                    ![scans[r].session_id].token_file =
                                        <<[access_token |-> NewAccessToken(r, scans[r].refreshes + 1),
                                           refresh_token |-> scans[r].token_payload[1].refresh_token,
                                           expired |-> FALSE]>>]
    /\ UNCHANGED sessions
    /\ ScanUnchanged

GraphAnswers == {"ok", "GraphAuthError", "RuntimeError"}

\* fetch_messages: _fetch_graph_messages inside the try, and again in the
\* handler of GraphAuthError, where a second GraphAuthError propagates
FetchGraphMessages(r) ==
    /\ scans[r].pc \in {"fetch", "fetch_again"}
    /\ \E answer \in GraphAnswers :
          scans' = [scans EXCEPT
                       ![r].failed = (answer # "ok"
                                      /\ ~(answer = "GraphAuthError" /\ scans[r].pc = "fetch")),
                       ![r].pc = IF answer = "GraphAuthError" /\ scans[r].pc = "fetch"
                                 THEN "refresh_rejected" ELSE "finally"]
    /\ UNCHANGED <<sessions, runtime_fs>>
    /\ ScanUnchanged

\* run_scan, finally: if token_path.exists(): refreshed = json.loads(token_path.read_text())
ReadBackToken(r) ==
    /\ scans[r].pc = "finally"
    /\ scans' = [scans EXCEPT
                    ![r].refreshed = runtime_fs[scans[r].session_id].token_file,
                    ![r].pc = IF runtime_fs[scans[r].session_id].token_file = <<>>
                              THEN "unlink" ELSE "save"]
    /\ UNCHANGED <<sessions, runtime_fs>>
    /\ ScanUnchanged

\* run_scan, finally: save_session_payload(session_id, updated_payload), where
\* updated_payload is the payload read at the start with token_json replaced
SaveSessionPayload(r) ==
    /\ scans[r].pc = "save"
    /\ sessions' = [s \in DOMAIN sessions \cup {scans[r].session_id} |->
                       IF s = scans[r].session_id
                       THEN [scans[r].session_payload[1] EXCEPT !.token_json = scans[r].refreshed]
                       ELSE sessions[s]]
    /\ scans' = [scans EXCEPT ![r].pc = "unlink"]
    /\ UNCHANGED runtime_fs
    /\ ScanUnchanged

\* run_scan, finally: token_path.unlink(missing_ok=True); a failed run answers 500
UnlinkTokenFile(r) ==
    /\ scans[r].pc = "unlink"
    /\ runtime_fs' = [runtime_fs EXCEPT ![scans[r].session_id].token_file = <<>>]
    /\ scans' = [scans EXCEPT ![r].status = IF scans[r].failed THEN 500 ELSE 0,
                              ![r].pc = IF scans[r].failed THEN "done" ELSE "rm_out"]
    /\ UNCHANGED sessions
    /\ ScanUnchanged

\* run_scan: the reads of the artifacts, then shutil.rmtree(transient_out)
RemoveTransientOut(r) ==
    /\ scans[r].pc = "rm_out"
    /\ runtime_fs' = [runtime_fs EXCEPT ![scans[r].session_id].outs = @ \ {r}]
    /\ scans' = [scans EXCEPT ![r].pc = "rm_tokens"]
    /\ UNCHANGED sessions
    /\ ScanUnchanged

\* run_scan: if token_dir.exists(): shutil.rmtree(token_dir, ignore_errors=True)
RemoveTokenDir(r) ==
    /\ scans[r].pc = "rm_tokens"
    /\ runtime_fs' = [runtime_fs EXCEPT ![scans[r].session_id].tokens = FALSE,
                                        ![scans[r].session_id].token_file = <<>>]
    /\ scans' = [scans EXCEPT ![r].pc = "rm_root"]
    /\ UNCHANGED sessions
    /\ ScanUnchanged

\* run_scan: if runtime_root.exists() and not any(runtime_root.iterdir()): runtime_root.rmdir()
RemoveRuntimeRoot(r) ==
    /\ scans[r].pc = "rm_root"
    /\ runtime_fs' = [runtime_fs EXCEPT ![scans[r].session_id].root =
                         @ /\ (runtime_fs[scans[r].session_id].tokens
                               \/ runtime_fs[scans[r].session_id].outs # {})]
    /\ scans' = [scans EXCEPT ![r].status = 200, ![r].pc = "done"]
    /\ UNCHANGED sessions
    /\ ScanUnchanged

ApiScanNext ==
    \E r \in Requests :
        \/ RequireSession(r)
        \/ MakeTokenDir(r)
        \/ WriteTokenFile(r)
        \/ MakeTransientOut(r)
        \/ LoadTokenPayload(r)
        \/ CheckTokenExpired(r)
        \/ RefreshAccessToken(r)
        \/ FetchGraphMessages(r)
        \/ ReadBackToken(r)
        \/ SaveSessionPayload(r)
        \/ UnlinkTokenFile(r)
        \/ RemoveTransientOut(r)
        \/ RemoveTokenDir(r)
        \/ RemoveRuntimeRoot(r)

SpecApiScan == ApiScanInit /\ [][ApiScanNext]_vars

(***************************************************************************)
(* Properties of concurrent /api/scan requests.                            *)
(***************************************************************************)
\* the request r has written its token file and has not yet read it back
UsesTokenFile(r) ==
    scans[r].pc \in {"mkdtemp", "load", "expiry", "refresh_expired", "fetch",
                     "refresh_rejected", "fetch_again", "finally"}

\* what r last wrote to its token file
ExpectedTokenFile(r) ==
    IF scans[r].refreshes > 0 THEN scans[r].token_payload
    ELSE scans[r].session_payload[1].token_json

\* C23: two /api/scan requests in flight share no mutable resource: the token
\* directory a request made is there when it writes its token file, and the
\* token file a request wrote (at the start, or after a refresh) is still
\* there, with the content it wrote, until the request reads it back in its
\* finally block; no step of the other request removes or overwrites it.
C23_ScansShareNothing ==
    \A r \in Requests :
        /\ scans[r].pc = "write" => runtime_fs[scans[r].session_id].tokens
        /\ UsesTokenFile(r) =>
              runtime_fs[scans[r].session_id].token_file = ExpectedTokenFile(r)

(***************************************************************************)
(* Properties of the Outlook adapter's fetch_messages.                     *)
(***************************************************************************)
\* C25: one call of fetch_messages refreshes the token at most once: after a
\* refresh (for an expired token or for a token Graph rejected) no second
\* refresh is attempted in the same call.
C25_AtMostOneRefreshPerCall ==
    \A r \in Requests :
        /\ scans[r].refreshes <= 1
        /\ ~(scans[r].pc = "refresh_rejected" /\ scans[r].refreshes = 1)

(***************************************************************************)
(* The AI diagram: render_ai_sankey (src/skills/job_tracker/sankey.py).    *)
(* The model keeps what decides the drawing: the clamped values, the nodes *)
(* of node_defs and the flows.                                             *)
(***************************************************************************)
\* the counts a caller can pass: negative and mutually inconsistent ones included
SankeyCounts == (0 - 1) .. MaxCount

SankeySummaries ==
    [applications : SankeyCounts, interviews : SankeyCounts, no_response : SankeyCounts,
     rejections_total : SankeyCounts, rejections_with_interview : {0},
     rejections_without_interview : SankeyCounts, offers : SankeyCounts]

\* max(int(summary.get(key, 0)), 0) for each count, and
\* rejected_after_interview = max(rejected_total - rejected_direct, 0)
SankeyRawValues(summary) ==
    [applications |-> MaxOf({summary.applications, 0}),
     interviews |-> MaxOf({summary.interviews, 0}),
     no_response |-> MaxOf({summary.no_response, 0}),
     offers |-> MaxOf({summary.offers, 0}),
     rejected_direct |-> MaxOf({summary.rejections_without_interview, 0}),
     rejected_after_interview |->
         MaxOf({MaxOf({summary.rejections_total, 0})
                - MaxOf({summary.rejections_without_interview, 0}), 0})]

\* rejected_direct = min(rejected_direct, applications)
ClampRejectedDirect(v) ==
    [v EXCEPT !.rejected_direct = MinOf({v.rejected_direct, v.applications})]

\* no_response = min(no_response, max(applications - rejected_direct, 0))
ClampNoResponse(v) ==
    [v EXCEPT !.no_response =
        MinOf({v.no_response, MaxOf({v.applications - v.rejected_direct, 0})})]

\* interviews = min(interviews, max(applications - rejected_direct - no_response, 0))
ClampInterviews(v) ==
    [v EXCEPT !.interviews =
        MinOf({v.interviews,
               MaxOf({v.applications - v.rejected_direct - v.no_response, 0})})]

\* a renderer that draws the offers it was given, whatever the interviews
ClampOffersSkipped(v) == v

\* offers = min(offers, interviews)
ClampOffers(v) ==
    [v EXCEPT !.offers = MinOf({v.offers, v.interviews})]

\* rejected_after_interview = min(rejected_after_interview, max(interviews - offers, 0))
ClampRejectedAfterInterview(v) ==
    [v EXCEPT !.rejected_after_interview =
        MinOf({v.rejected_after_interview, MaxOf({v.interviews - v.offers, 0})})]

SankeyValues(summary) ==
    ClampRejectedAfterInterview(ClampOffers(ClampInterviews(
        ClampNoResponse(ClampRejectedDirect(SankeyRawValues(summary))))))

StageNodes == {"interviews", "rejected_direct", "no_response", "rejected_after_interview",
               "offers"}

\* node_defs: Applications always, a stage node only when its value is positive
SankeyNodeDefs(v) == {"applications"} \cup {k \in StageNodes : v[k] > 0}

\* the flows render_ai_sankey may append: source, target
SankeyFlowEnds ==
    {<<"applications", "interviews">>, <<"applications", "no_response">>,
     <<"applications", "rejected_direct">>, <<"interviews", "offers">>,
     <<"interviews", "rejected_after_interview">>}

\* flows: each one appended when its value is positive and its nodes are in node_defs
SankeyFlows(v, node_defs) ==
    {[src |-> e[1], dst |-> e[2], val |-> v[e[2]]] :
        e \in {f \in SankeyFlowEnds :
                  v[f[2]] > 0 /\ f[1] \in node_defs /\ f[2] \in node_defs}}

SankeyInit ==
    /\ phase = "summary"
    /\ ai_classify = TRUE
    /\ options = {}
    /\ normalized_all = <<>>
    /\ RuleIdle
    /\ ai_msg_rows = <<>>
    /\ grouped = [alias_map |-> <<>>, ids |-> <<>>, groups |-> <<>>]
    /\ ai_app_rows = [error |-> "", rows |-> <<>>]
    /\ ai_summary \in SankeySummaries
    /\ scans = <<>>
    /\ sessions = <<>>
    /\ runtime_fs = <<>>
    /\ oauth = [pc |-> "idle"]
    /\ ai_sankey = <<>>
    /\ artifacts = {}
    /\ raised = ""

RenderAiSankey ==
    /\ phase = "summary"
    /\ ai_sankey' = [vals |-> SankeyValues(ai_summary),
                     node_defs |-> SankeyNodeDefs(SankeyValues(ai_summary)),
                     flows |-> SankeyFlows(SankeyValues(ai_summary),
                                           SankeyNodeDefs(SankeyValues(ai_summary)))]
    /\ artifacts' = artifacts \cup {"ai_sankey.png"}
    /\ phase' = "drawn"
    /\ UNCHANGED <<ai_classify, options, normalized_all, ruleVars, raised, aiVars,
                   scans, sessions, runtime_fs, oauth>>

SankeyNext == RenderAiSankey

SpecSankey == SankeyInit /\ [][SankeyNext]_vars

\* C24: whatever integers the summary holds, the values render_ai_sankey draws
\* are all >= 0, rejected_direct + no_response + interviews <= applications and
\* offers + rejected_after_interview <= interviews; a stage node whose value
\* is 0 is not drawn, and every flow drawn joins two drawn nodes.
C24_ClampedValuesAreConsistent ==
    phase = "drawn" =>
        /\ \A k \in DOMAIN ai_sankey.vals : ai_sankey.vals[k] >= 0
        /\ ai_sankey.vals.rejected_direct + ai_sankey.vals.no_response
               + ai_sankey.vals.interviews <= ai_sankey.vals.applications
        /\ ai_sankey.vals.offers + ai_sankey.vals.rejected_after_interview
               <= ai_sankey.vals.interviews
        /\ \A k \in StageNodes : ai_sankey.vals[k] = 0 => k \notin ai_sankey.node_defs
        /\ \A f \in ai_sankey.flows :
               /\ f.src \in ai_sankey.node_defs
               /\ f.dst \in ai_sankey.node_defs
               /\ f.val > 0

\* a drawing of an inconsistent summary: more offers than interviews, a
\* negative count, and a stage node left out beside one that is drawn
C24_InconsistentSummaryDrawn ==
    /\ phase = "drawn"
    /\ ai_summary.offers > ai_summary.interviews
    /\ ai_summary.interviews > 0
    /\ ai_summary.no_response < 0
    /\ ai_summary.rejections_without_interview > ai_summary.applications
    /\ "offers" \notin ai_sankey.node_defs
    /\ \E f \in ai_sankey.flows : f.dst = "rejected_direct"

(***************************************************************************)
(* The API server: the OAuth start endpoints and the Google callback       *)
(* (src/api/server.py), with the state helpers of src/api/auth_session.py. *)
(* Base64 and the HMAC are symbolic: an encoding is a record that holds    *)
(* what was encoded, a signature a record of the key and the signed text.  *)
(***************************************************************************)
STATE_TTL_SECONDS == 600
SESSION_SECRET == "dev-session-secret-change-me"
IssueTime == 1000

_b64url_encode(raw) == [b64url |-> raw]
_b64url_decode(text) == text.b64url
_sign_text(text) == [hmac_key |-> SESSION_SECRET, text |-> text]
_verify_text_signature(text, sig) == _sign_text(text) = sig

\* the keyword parameters of create_state
CreateStateParameters == {"next_path"}

\* the call create_state(**kwargs) binds its arguments: a keyword that is
\* not a parameter raises TypeError
CreateStateAccepts(kwargs) == DOMAIN kwargs \subseteq CreateStateParameters

\* create_state: the payload it signs holds nonce, ts and next_path
CreateStatePayload(kwargs, nonce, ts) ==
    [nonce |-> nonce, ts |-> ts,
     next_path |-> IF StartsWith(kwargs.next_path, "/") THEN kwargs.next_path ELSE "/"]

\* create_state: f"{body}.{sig}", kept as its two parts
create_state(kwargs, nonce, ts) ==
    <<_b64url_encode(CreateStatePayload(kwargs, nonce, ts)),
      _sign_text(_b64url_encode(CreateStatePayload(kwargs, nonce, ts)))>>

\* verify_state: "" when the state is accepted, else the ValueError it raises
VerifyStateError(state, now) ==
    IF Len(state) # 2 THEN "Malformed OAuth state"
    ELSE IF ~_verify_text_signature(state[1], state[2]) THEN "Invalid OAuth state signature"
    ELSE IF _b64url_decode(state[1]).ts <= 0
            \/ now - _b64url_decode(state[1]).ts > STATE_TTL_SECONDS
         THEN "OAuth state expired"
    ELSE ""

\* verify_state: the payload of an accepted state
verify_state(state) == _b64url_decode(state[1])

\* dict.get(key, default) on a payload
PayloadGet(payload, key, default) ==
    IF key \in DOMAIN payload THEN payload[key] ELSE default

NextPaths == {"/", "/app", "app"}
CodeVerifiers == {"verifier-1", "verifier-2"}

\* auth_google_start: the keyword arguments of its call of create_state
GoogleStartKwargs(next_path, pkce_code_verifier) ==
    [next_path |-> next_path, pkce_code_verifier |-> pkce_code_verifier]

\* auth_outlook_start: the keyword arguments of its call of create_state
OutlookStartKwargs(next_path) == [next_path |-> next_path]

OAuthInit ==
    /\ phase = "oauth"
    /\ ai_classify = FALSE
    /\ options = {}
    /\ normalized_all = <<>>
    /\ RuleIdle
    /\ AiIdle
    /\ artifacts = {}
    /\ raised = ""
    /\ scans = <<>>
    /\ sessions = <<>>
    /\ runtime_fs = <<>>
    /\ ai_sankey = <<>>
    /\ oauth = [pc |-> "request"]

OAuthUnchanged ==
    UNCHANGED <<phase, ai_classify, options, normalized_all, ruleVars, artifacts, raised,
                aiVars, scans, runtime_fs, ai_sankey>>

\* GET /api/auth/google/start
auth_google_start ==
    /\ oauth.pc = "request"
    /\ \E next_path \in NextPaths, pkce_code_verifier \in CodeVerifiers,
          credentials_found \in BOOLEAN :
          oauth' =
              IF ~credentials_found
              THEN [pc |-> "started", provider |-> "gmail", next_path |-> next_path,
                    pkce_code_verifier |-> pkce_code_verifier, credentials |-> FALSE,
                    status |-> 500, error |-> "HTTPException", state |-> <<>>,
                    flow_code_verifier |-> ""]
              ELSE IF ~CreateStateAccepts(GoogleStartKwargs(next_path, pkce_code_verifier))
              THEN [pc |-> "started", provider |-> "gmail", next_path |-> next_path,
                    pkce_code_verifier |-> pkce_code_verifier, credentials |-> TRUE,
                    status |-> 500, error |-> "TypeError", state |-> <<>>,
                    flow_code_verifier |-> ""]
              ELSE [pc |-> "started", provider |-> "gmail", next_path |-> next_path,
                    pkce_code_verifier |-> pkce_code_verifier, credentials |-> TRUE,
                    status |-> 302, error |-> "",
                    state |-> create_state(GoogleStartKwargs(next_path, pkce_code_verifier),
                                           "nonce", IssueTime),
                    flow_code_verifier |-> pkce_code_verifier]
    /\ UNCHANGED sessions
    /\ OAuthUnchanged

\* GET /api/auth/outlook/start
auth_outlook_start ==
    /\ oauth.pc = "request"
    /\ \E next_path \in NextPaths, configured \in BOOLEAN :
          oauth' =
              IF ~configured
              THEN [pc |-> "started", provider |-> "outlook", next_path |-> next_path,
                    pkce_code_verifier |-> "", credentials |-> FALSE,
                    status |-> 500, error |-> "HTTPException", state |-> <<>>,
                    flow_code_verifier |-> ""]
              ELSE [pc |-> "started", provider |-> "outlook", next_path |-> next_path,
                    pkce_code_verifier |-> "", credentials |-> TRUE,
                    status |-> 302, error |-> "",
                    state |-> create_state(OutlookStartKwargs(next_path), "nonce", IssueTime),
                    flow_code_verifier |-> ""]
    /\ UNCHANGED sessions
    /\ OAuthUnchanged

\* the states a client can present to the callback after a start: none, the
\* one it was issued, that one without its signature, and that one re-signed
\* with another key
PresentedStates(issued) ==
    {<<>>} \cup
    (IF issued = <<>> THEN {}
     ELSE {issued, <<issued[1]>>, <<issued[1], [hmac_key |-> "other", text |-> issued[1]]>>})

\* auth_google_callback: the keyword arguments of flow.fetch_token
FetchKwargs(code, pkce_code_verifier) ==
    IF pkce_code_verifier # ""
    THEN [code |-> code, code_verifier |-> pkce_code_verifier]
    ELSE [code |-> code]

\* GET /api/auth/google/callback: "redirect" is the auth value of the
\* frontend URL it answers with
auth_google_callback ==
    /\ oauth.pc = "started"
    /\ \E error \in {"", "access_denied"}, state \in PresentedStates(oauth.state),
          code \in {"", "code-1"}, elapsed \in {0, STATE_TTL_SECONDS + 1},
          exchange_succeeds \in BOOLEAN :
          /\ oauth' =
                [oauth EXCEPT !.pc = "called_back"] @@
                [query |-> [error |-> error, state |-> state, code |-> code],
                 elapsed |-> elapsed,
                 redirect |->
                     IF error # "" \/ state = <<>> \/ code = ""
                        \/ VerifyStateError(state, IssueTime + elapsed) # ""
                        \/ ~oauth.credentials \/ ~exchange_succeeds
                     THEN "error" ELSE "success",
                 fetch_kwargs |->
                     IF error # "" \/ state = <<>> \/ code = ""
                        \/ VerifyStateError(state, IssueTime + elapsed) # ""
                        \/ ~oauth.credentials
                     THEN <<>>
                     ELSE FetchKwargs(code, PayloadGet(verify_state(state),
                                                       "pkce_code_verifier", ""))]
          /\ sessions' =
                IF error # "" \/ state = <<>> \/ code = ""
                   \/ VerifyStateError(state, IssueTime + elapsed) # ""
                   \/ ~oauth.credentials \/ ~exchange_succeeds
                THEN sessions
                ELSE [s \in {"sid"} |->
                         [provider |-> "gmail",
                          token_json |-> <<[access_token |-> "a0", refresh_token |-> "rt",
                                            expired |-> FALSE]>>]]
    /\ OAuthUnchanged

OAuthNext == auth_google_start \/ auth_outlook_start \/ auth_google_callback

SpecOAuth == OAuthInit /\ [][OAuthNext]_vars

\* C26: when the credentials are in place, /api/auth/google/start answers 302
\* with a state whose signature verifies and whose payload holds the
\* pkce_code_verifier set on the authorization flow; and a callback that
\* saves a session after that start has passed exactly that verifier to the
\* token exchange.
C26_StateRoundTripsVerifier ==
    /\ (oauth.pc = "started" /\ oauth.provider = "gmail" /\ oauth.credentials) =>
          /\ oauth.status = 302
          /\ VerifyStateError(oauth.state, IssueTime) = ""
          /\ PayloadGet(verify_state(oauth.state), "pkce_code_verifier", "")
                 = oauth.flow_code_verifier
          /\ oauth.flow_code_verifier = oauth.pkce_code_verifier
    /\ (oauth.pc = "called_back" /\ oauth.provider = "gmail" /\ oauth.redirect = "success") =>
          /\ "code_verifier" \in DOMAIN oauth.fetch_kwargs
          /\ oauth.fetch_kwargs.code_verifier = oauth.pkce_code_verifier

(***************************************************************************)
(* Properties of compute_funnel and of the audit table.                    *)
(***************************************************************************)
AuditCounters ==
    {"counted_replied", "counted_no_replies", "counted_oa", "counted_interviews",
     "counted_offers", "counted_rejected", "counted_withdrawn"}

\* the distinct application keys of the events of the run
EventKeys == {events[i].application_key : i \in 1..Len(events)}

\* C27: compute_funnel counts applications, not emails: the audit table has
\* one row per distinct application_key of the events, so applications is the
\* number of distinct keys; every counter of a row is 0 or 1, so an
\* application adds at most 1 to each count; exactly one of counted_replied
\* and counted_no_replies is 1 in each row, so replies + no_replies =
\* applications; and no consistency warning is emitted.
C27_FunnelCountsApplications ==
    phase \in {"write", "done"} =>
        /\ Len(audit_rows) = Cardinality(EventKeys)
        /\ {audit_rows[i].application_key : i \in 1..Len(audit_rows)} = EventKeys
        /\ compute_metrics_from_audit_rows(audit_rows).applications = Cardinality(EventKeys)
        /\ \A i \in 1..Len(audit_rows) :
              /\ audit_rows[i].counted_applied = "1"
              /\ \A c \in AuditCounters : audit_rows[i][c] \in {"0", "1"}
              /\ (audit_rows[i].counted_replied = "1")
                     # (audit_rows[i].counted_no_replies = "1")
        /\ compute_metrics_from_audit_rows(audit_rows).replies
               + compute_metrics_from_audit_rows(audit_rows).no_replies
               = Cardinality(EventKeys)
        /\ \A c \in AuditCounters :
              SumColumn(audit_rows, c) <= Cardinality(EventKeys)
        /\ \A k \in 1..Len(result.warnings) :
              ~StartsWith(result.warnings[k], "reply/no_reply consistency issue")

\* a run in which one application has two events and has a reply
C27_ApplicationWithTwoEvents ==
    /\ phase = "done"
    /\ Len(events) > Len(audit_rows)
    /\ \E i \in 1..Len(audit_rows) : audit_rows[i].counted_replied = "1"

\* the audit column that explains each count of the metrics
AuditColumnOf ==
    [applications |-> "counted_applied", replies |-> "counted_replied",
     no_replies |-> "counted_no_replies", oa |-> "counted_oa",
     withdrawn |-> "counted_withdrawn", interviews |-> "counted_interviews",
     offers |-> "counted_offers", rejected |-> "counted_rejected"]

\* C28: the audit table explains the metrics run() reports: the number of
\* audit rows is result.metrics.applications, and for every count of the
\* metrics the audit rows whose column for it is 1 are as many as the count.
C28_AuditExplainsMetrics ==
    phase \in {"write", "done"} =>
        /\ Len(audit_rows) = result.metrics.applications
        /\ \A m \in DOMAIN AuditColumnOf :
              SumColumn(audit_rows, AuditColumnOf[m]) = result.metrics[m]

(***************************************************************************)
(* The interview guard of the LLM path, at classification and at           *)
(* aggregation: runs with ai_classify on one fetched message whose         *)
(* scheduling language stands in the subject, in the preview, in the body, *)
(* or nowhere.                                                             *)
(***************************************************************************)
GuardMessages ==
    {Message("jobs@acme.com", subject, snippet, "t1", body) :
        subject \in {"Next steps with Acme", "Your interview is scheduled for Tuesday",
                     "Your application at Acme"},
        snippet \in {"", "Your interview is scheduled for Tuesday"},
        body \in {"", "Your interview has been scheduled for Tuesday at 10:00",
                  "We may schedule a call later"}}
GuardInit ==
    /\ phase = "fetch"
    /\ ai_classify = TRUE
    /\ options = {}
    /\ normalized_all \in {<<[id |-> MessageId(1), date |-> 0] @@ t>> : t \in GuardMessages}
    /\ RuleIdle
    /\ OuterIdle
    /\ AiIdle
    /\ artifacts = {}
    /\ raised = ""
GuardNext ==
    \/ StartRun
    \/ ProcessMessage
    \/ Summarize
    \/ RequireApiKey
    \/ ClassifyWithLlm
    \/ BuildAiArtifacts
    \/ WriteArtifacts
SpecGuard == GuardInit /\ [][GuardNext]_vars

\* the AI block has built its table and its summary
AiTablesBuilt == phase \in {"write", "done"} /\ "ai_result_summary.json" \in artifacts

\* the i-th row left classification as a job-related interview
KeptInterview(i) ==
    /\ ai_msg_rows[i].event_type = "interview"
    /\ ai_msg_rows[i].is_job_related = "true"

\* C29: in the LLM path the guard applied at aggregation agrees with the one
\* applied at classification: once the table and the summary are built, every
\* job-related row that left classification with event_type interview is an
\* interview for the builders too, so the summary counts an interview and the
\* row's application has a current_status of Interviewing or beyond.
C29_KeptInterviewIsHonored ==
    AiTablesBuilt =>
        \A i \in 1..Len(ai_msg_rows) :
            KeptInterview(i) =>
                /\ _effective_event_type(ai_msg_rows[i]) = "interview"
                /\ ai_summary.interviews >= 1
                /\ \E k \in 1..Len(ai_app_rows.rows) :
                      ai_app_rows.rows[k].current_status
                          \in {"Interviewing", "Offer", "Rejected"}

(***************************************************************************)
(* Properties that relate the AI application table to the AI summary.      *)
(***************************************************************************)
\* the rows of the table with the given current_status
TableRowsWithStatus(status) ==
    {k \in 1..Len(ai_app_rows.rows) : ai_app_rows.rows[k].current_status = status}

RECURSIVE EmailCountSum(_)
EmailCountSum(rows) ==
    IF Len(rows) = 0 THEN 0 ELSE Head(rows).email_count + EmailCountSum(Tail(rows))

\* the classified rows that are job related and not calendar-RSVP noise
CountedMessageRows ==
    {i \in 1..Len(ai_msg_rows) :
        /\ RowGet(ai_msg_rows[i], "is_job_related") = "true"
        /\ ~FactsOfRow(ai_msg_rows[i]).noise}

AllDatesParse == \A i \in 1..Len(ai_msg_rows) : DateParses(ai_msg_rows[i].date)

\* C30: built from the same rows, all with dates that parse, the application
\* table and the summary agree: as many table rows as summary.applications, as
\* many rows with current_status Applied as summary.no_response, as many with
\* current_status Offer as summary.offers, and the email_count column adds up
\* to the number of job-related rows that are not calendar-RSVP noise.
C30_TableAgreesWithSummary ==
    (phase = "built" /\ AllDatesParse) =>
        /\ ai_app_rows.error = ""
        /\ Len(ai_app_rows.rows) = ai_summary.applications
        /\ Cardinality(TableRowsWithStatus("Applied")) = ai_summary.no_response
        /\ Cardinality(TableRowsWithStatus("Offer")) = ai_summary.offers
        /\ EmailCountSum(ai_app_rows.rows) = Cardinality(CountedMessageRows)

\* a table of two applications, one of them with an offer after a rejection,
\* built from three rows
C30_OfferAndRejectionInOneApplication ==
    /\ phase = "built"
    /\ AllDatesParse
    /\ Len(ai_msg_rows) = 3
    /\ Len(ai_app_rows.rows) = 2
    /\ ai_summary.offers = 1
    /\ ai_summary.rejections_total = 1
    /\ ai_summary.no_response = 1

=============================================================================
